---- MODULE Spec2Model ----
(***************************************************************************)
(* A model of the file access plugin (src/implementation.js): the path     *)
(* validator, the durable store of directory handles, the directory        *)
(* permission manager's session state and the file operations built on     *)
(* them.  A path is a sequence of one-character strings.  Every async      *)
(* handler is a call held in a slot; one action is the code a handler runs *)
(* between two awaits, so calls interleave exactly at their awaits.  A     *)
(* slot keeps what its handler returned or threw until the next one starts.*)
(***************************************************************************)
EXTENDS Integers, Sequences, FiniteSets, TLC

VARIABLES
    store,                \* StorageManager's object store: id -> directory token
    nextId,               \* ids handed out so far (ids are never reused)
    rootDirectoryHandle,  \* DirectoryPermissionManager.rootDirectoryHandle
    permissionGranted,    \* DirectoryPermissionManager.permissionGranted
    currentDirectoryId,   \* DirectoryPermissionManager.currentDirectoryId
    hostPerm,             \* the host's readwrite permission on each directory token:
                          \* "granted", "prompt" or "denied"
    calls,                \* per slot: the handler in flight, or what the last one returned
    listed,               \* the ids the caller has been shown by getStoredDirectories
    removedActive,        \* history: removeDirectory of the active grant has returned and
                          \* no request or switch has succeeded since
    neverActive,          \* history: no request and no switch has succeeded since the
                          \* manager was constructed
    dirs,                 \* the directories under the root of the directory "dirA"
    files,                \* the files under that root: path -> what the file holds
    written,              \* history: path -> the content of the last writeFile to it
                          \* that returned, while no later writeFile to it has started
    vpath,                \* validateFilePath's argument `path`
    vgrant,               \* validateFilePath's argument `directoryAccessGranted`
    vresult               \* validateFilePath's outcome on (vpath, vgrant)

sessionVars == <<rootDirectoryHandle, permissionGranted, currentDirectoryId>>
storeVars == <<store, nextId>>
validatorVars == <<vpath, vgrant, vresult>>
fsVars == <<dirs, files, written>>
vars == <<store, nextId, rootDirectoryHandle, permissionGranted,
          currentDirectoryId, hostPerm, calls, listed, removedActive, neverActive,
          dirs, files, written, vpath, vgrant, vresult>>

(***************************************************************************)
(* Bounds.                                                                 *)
(***************************************************************************)
\* longest path enumerated exhaustively over PathAlphabet
MaxPathLen == 4
\* number of grants a behaviour may create
MaxGrants == 2

Null == "null"

(***************************************************************************)
(* Strings.                                                                *)
(***************************************************************************)
UpperCase ==
    {"A","B","C","D","E","F","G","H","I","J","K","L","M",
     "N","O","P","Q","R","S","T","U","V","W","X","Y","Z"}

LowerCase ==
    {"a","b","c","d","e","f","g","h","i","j","k","l","m",
     "n","o","p","q","r","s","t","u","v","w","x","y","z"}

LowerOf ==
    [ch \in UpperCase |->
       CASE ch = "A" -> "a" [] ch = "B" -> "b" [] ch = "C" -> "c"
         [] ch = "D" -> "d" [] ch = "E" -> "e" [] ch = "F" -> "f"
         [] ch = "G" -> "g" [] ch = "H" -> "h" [] ch = "I" -> "i"
         [] ch = "J" -> "j" [] ch = "K" -> "k" [] ch = "L" -> "l"
         [] ch = "M" -> "m" [] ch = "N" -> "n" [] ch = "O" -> "o"
         [] ch = "P" -> "p" [] ch = "Q" -> "q" [] ch = "R" -> "r"
         [] ch = "S" -> "s" [] ch = "T" -> "t" [] ch = "U" -> "u"
         [] ch = "V" -> "v" [] ch = "W" -> "w" [] ch = "X" -> "x"
         [] ch = "Y" -> "y" [] ch = "Z" -> "z"]

\* String.prototype.toLowerCase
toLowerCase(s) ==
    [i \in 1..Len(s) |-> IF s[i] \in UpperCase THEN LowerOf[s[i]] ELSE s[i]]

\* String.prototype.includes
includes(s, sub) ==
    \E i \in 0..(Len(s) - Len(sub)) :
       \A j \in 1..Len(sub) : s[i + j] = sub[j]

\* String.prototype.startsWith
startsWith(s, pre) ==
    /\ Len(pre) <= Len(s)
    /\ \A j \in 1..Len(pre) : s[j] = pre[j]

\* path.replace(/\\/g, '/')
ReplaceBackslashes(s) ==
    [i \in 1..Len(s) |-> IF s[i] = "\\" THEN "/" ELSE s[i]]

\* /^[A-Za-z]:/.test(s)
DriveLetterTest(s) ==
    /\ Len(s) >= 2
    /\ s[1] \in UpperCase \cup LowerCase
    /\ s[2] = ":"

\* s.split('/'): the pieces between the separators, empty pieces included
RECURSIVE SplitFrom(_, _, _)
SplitFrom(s, i, piece) ==
    IF i > Len(s) THEN <<piece>>
    ELSE IF s[i] = "/" THEN <<piece>> \o SplitFrom(s, i + 1, <<>>)
    ELSE SplitFrom(s, i + 1, Append(piece, s[i]))

split(s) == SplitFrom(s, 1, <<>>)

\* path.split('/').filter(segment => segment.length > 0)
Segments(s) == SelectSeq(split(s), LAMBDA piece : Len(piece) > 0)

(***************************************************************************)
(* validateFilePath.  Its outcome is "ok" (returns true) or the error it   *)
(* throws, named after the message of that error.                          *)
(***************************************************************************)
s_system == <<"s","y","s","t","e","m">>
s_windows == <<"w","i","n","d","o","w","s">>
s_programfiles == <<"p","r","o","g","r","a","m"," ","f","i","l","e","s">>
s_etc == <<"e","t","c">>
s_var == <<"v","a","r">>

sensitiveDirectories == {s_system, s_windows, s_programfiles, s_etc, s_var}

IsRootPath(path) == path = <<>> \/ path = <<".">> \/ path = <<".", "/">>

TraversalTest(normalizedPath) ==
    \/ includes(normalizedPath, <<".", ".", "/">>)
    \/ includes(normalizedPath, <<".", ".", "\\">>)

\* the absolute-path test with the drive-letter pattern left out
AbsoluteTest_NoDriveLetter(normalizedPath) ==
    startsWith(normalizedPath, <<"/">>)

AbsoluteTest(normalizedPath) ==
    startsWith(normalizedPath, <<"/">>) \/ DriveLetterTest(normalizedPath)

\* the sensitive-name test on the path as written, not lower-cased
SensitiveTest_CaseSensitive(normalizedPath) ==
    \E dir \in sensitiveDirectories : includes(normalizedPath, dir)

SensitiveTest(normalizedPath) ==
    \E dir \in sensitiveDirectories : includes(toLowerCase(normalizedPath), dir)

validateFilePath(path, directoryAccessGranted) ==
    LET normalizedPath == ReplaceBackslashes(path) IN
    IF IsRootPath(path) THEN "ok"
    ELSE IF TraversalTest(normalizedPath) THEN "ErrTraversal"
    ELSE IF directoryAccessGranted /\ AbsoluteTest(normalizedPath)
         THEN "ErrUseRelativePaths"
    ELSE IF ~directoryAccessGranted /\ AbsoluteTest(normalizedPath)
         THEN "ErrAbsoluteNotAllowed"
    ELSE IF SensitiveTest(normalizedPath) THEN "ErrSensitive"
    ELSE "ok"

(***************************************************************************)
(* The data the handlers work on.                                          *)
(***************************************************************************)
\* the directories the host can hand out a token for
Tokens == {"dirA", "dirB"}

\* currentDirectoryId = null
NullId == 0
\* the ids storeDirectoryHandle generates, in the order it generates them
Ids == 1..MaxGrants
\* an id no record ever had
UnknownId == MaxGrants + 1

\* the paths the file operations are called with
p_empty == <<>>
p_dot == <<".">>
p_dotslash == <<".", "/">>
p_a == <<"a">>
p_a_b == <<"a", "/", "b">>
p_up_a == <<".", ".", "/", "a">>
p_abs_a == <<"/", "a">>
p_etc == <<"e", "t", "c">>

OpPaths == {p_empty, p_dot, p_dotslash, p_a, p_a_b, p_up_a, p_abs_a, p_etc}

\* FileAccessManager.maxFileSize, the default
maxFileSize == 10 * 1024 * 1024
\* the sizes of the files the host holds
FileSizes == {maxFileSize, maxFileSize + 1}

IoOps == {"listFiles", "readFile", "writeFile"}

\* the slots handlers run in; one caller alone (Spec) uses s1 only
Slots == {"s1", "s2"}

Idle ==
    [op |-> "idle", pc |-> "idle", id |-> NullId, path |-> <<>>, tok |-> Null,
     segs |-> <<>>, eph |-> FALSE, validated |-> FALSE, queried |-> FALSE,
     prompted |-> FALSE, todo |-> <<>>, entries |-> {}, result |-> "none",
     wasActive |-> FALSE, found |-> FALSE, size |-> 0, ask |-> FALSE,
     cur |-> <<>>, content |-> <<>>, name |-> <<>>, data |-> <<>>,
     created |-> {}, after |-> <<>>, stream |-> <<>>]

\* no handler is running in slot c
Free(c) == calls[c].pc \in {"idle", "done"}

\* DirectoryPermissionManager.hasPermission
hasPermission == rootDirectoryHandle # Null /\ permissionGranted

\* the record the store holds under id, or Null
StoreGet(id) == IF id \in DOMAIN store THEN store[id] ELSE Null

\* what a handler leaves behind when it returns or throws
Outcome(call, result) ==
    [Idle EXCEPT !.op = call.op, !.pc = "done", !.id = call.id,
                 !.result = result, !.queried = call.queried,
                 !.prompted = call.prompted, !.entries = call.entries,
                 !.wasActive = call.wasActive, !.found = call.found,
                 !.size = call.size, !.ask = call.ask]

Finish(c, result) ==
    calls' = [calls EXCEPT ![c] = Outcome(calls[c], result)]

\* requestPermission's answers the host can give for token t
HostAnswers(t) ==
    IF hostPerm[t] = "granted" THEN {"granted"}
    ELSE IF hostPerm[t] = "denied" THEN {"denied"}
    ELSE {"granted", "denied"}

Init ==
    /\ store = [i \in Ids |-> Null]
    /\ nextId = 1
    /\ rootDirectoryHandle = Null
    /\ permissionGranted = FALSE
    /\ currentDirectoryId = NullId
    /\ hostPerm = [t \in Tokens |-> "prompt"]
    /\ calls = [c \in Slots |-> Idle]
    /\ listed = {}
    /\ removedActive = FALSE
    /\ neverActive = TRUE
    /\ dirs = {}
    /\ files = [p \in {} |-> <<>>]
    /\ written = [p \in {} |-> <<>>]
    /\ vpath = <<>>
    /\ vgrant = FALSE
    /\ vresult = "none"

(***************************************************************************)
(* The host: the user or the browser withdraws a permission at any time.   *)
(***************************************************************************)
HostRevoke(t) ==
    /\ hostPerm[t] = "granted"
    /\ hostPerm' = [hostPerm EXCEPT ![t] = "prompt"]
    /\ UNCHANGED <<storeVars, sessionVars, calls, listed, validatorVars, fsVars, removedActive, neverActive>>

(***************************************************************************)
(* requestDirectoryAccess -> requestDirectoryPermission                    *)
(***************************************************************************)
PendingRequests ==
    Cardinality({c \in Slots :
                   calls[c].op = "requestDirectoryAccess" /\ ~Free(c)})

StartRequest(c) ==
    /\ Free(c)
    /\ nextId + PendingRequests <= MaxGrants
    /\ calls' = [calls EXCEPT ![c] =
                   [Idle EXCEPT !.op = "requestDirectoryAccess",
                                !.pc = "showDirectoryPicker",
                                !.wasActive = hasPermission]]
    /\ UNCHANGED <<storeVars, sessionVars, hostPerm, listed, validatorVars, fsVars, removedActive, neverActive>>

\* the picker returns a directory; in readwrite mode the host may grant with it
RequestPicked(c, t, grantedOnPick) ==
    /\ calls[c].op = "requestDirectoryAccess"
    /\ calls[c].pc = "showDirectoryPicker"
    /\ rootDirectoryHandle' = t
    /\ hostPerm' = IF grantedOnPick THEN [hostPerm EXCEPT ![t] = "granted"]
                   ELSE hostPerm
    /\ calls' = [calls EXCEPT ![c].pc = "queryPermission", ![c].tok = t]
    /\ UNCHANGED <<storeVars, permissionGranted, currentDirectoryId,
                   listed, validatorVars, fsVars, removedActive, neverActive>>

\* the user cancels the picker: showDirectoryPicker rejects
RequestCancelled(c) ==
    /\ calls[c].op = "requestDirectoryAccess"
    /\ calls[c].pc = "showDirectoryPicker"
    /\ permissionGranted' = FALSE
    /\ Finish(c, "throw:Abort")
    /\ UNCHANGED <<storeVars, rootDirectoryHandle, currentDirectoryId, hostPerm,
                   listed, validatorVars, fsVars, removedActive, neverActive>>

RequestQueryResolved(c) ==
    /\ calls[c].op = "requestDirectoryAccess"
    /\ calls[c].pc = "queryPermission"
    /\ IF hostPerm[calls[c].tok] = "granted"
       THEN /\ permissionGranted' = TRUE
            /\ calls' = [calls EXCEPT ![c].pc = "store.add",
                                      ![c].tok = rootDirectoryHandle,
                                      ![c].queried = TRUE]
       ELSE /\ calls' = [calls EXCEPT ![c].pc = "requestPermission",
                                      ![c].queried = TRUE]
            /\ UNCHANGED permissionGranted
    /\ UNCHANGED <<storeVars, rootDirectoryHandle, currentDirectoryId, hostPerm,
                   listed, validatorVars, fsVars, removedActive, neverActive>>

\* the prompt answers, and a declined prompt goes on to store the handle
RequestAskResolved_StoresAnyway(c, answer) ==
    /\ calls[c].op = "requestDirectoryAccess"
    /\ calls[c].pc = "requestPermission"
    /\ answer \in HostAnswers(calls[c].tok)
    /\ hostPerm' = [hostPerm EXCEPT ![calls[c].tok] = answer]
    /\ permissionGranted' = (answer = "granted")
    /\ calls' = [calls EXCEPT ![c].pc = "store.add",
                              ![c].tok = rootDirectoryHandle,
                              ![c].prompted = TRUE]
    /\ UNCHANGED <<storeVars, rootDirectoryHandle, currentDirectoryId,
                   listed, validatorVars, fsVars, removedActive, neverActive>>

RequestAskResolved(c, answer) ==
    /\ calls[c].op = "requestDirectoryAccess"
    /\ calls[c].pc = "requestPermission"
    /\ answer \in HostAnswers(calls[c].tok)
    /\ hostPerm' = [hostPerm EXCEPT ![calls[c].tok] = answer]
    /\ permissionGranted' = (answer = "granted")
    /\ IF answer = "granted"
       THEN calls' = [calls EXCEPT ![c].pc = "store.add",
                                   ![c].tok = rootDirectoryHandle,
                                   ![c].prompted = TRUE]
       ELSE calls' = [calls EXCEPT ![c] =
                        Outcome([calls[c] EXCEPT !.prompted = TRUE], "false")]
    /\ UNCHANGED <<storeVars, rootDirectoryHandle, currentDirectoryId,
                   listed, validatorVars, fsVars, removedActive, neverActive>>

\* queryPermission or requestPermission rejects: the catch block runs
RequestHostFailed(c) ==
    /\ calls[c].op = "requestDirectoryAccess"
    /\ calls[c].pc \in {"queryPermission", "requestPermission"}
    /\ permissionGranted' = FALSE
    /\ Finish(c, "throw:HostApi")
    /\ UNCHANGED <<storeVars, rootDirectoryHandle, currentDirectoryId, hostPerm,
                   listed, validatorVars, fsVars, removedActive, neverActive>>

\* the record is added, and currentDirectoryId is not assigned
RequestStored_KeepsCurrentId(c) ==
    /\ calls[c].op = "requestDirectoryAccess"
    /\ calls[c].pc = "store.add"
    /\ calls[c].tok # Null
    /\ store' = [store EXCEPT ![nextId] = calls[c].tok]
    /\ nextId' = nextId + 1
    /\ calls' = [calls EXCEPT ![c] =
                   Outcome([calls[c] EXCEPT !.id = nextId],
                           IF permissionGranted THEN "true" ELSE "false")]
    /\ removedActive' = (removedActive /\ ~permissionGranted)
    /\ neverActive' = (neverActive /\ ~permissionGranted)
    /\ UNCHANGED <<rootDirectoryHandle, permissionGranted, currentDirectoryId,
                   hostPerm, listed, validatorVars, fsVars>>

\* storeDirectoryHandle(this.rootDirectoryHandle) resolves with the new id: the
\* handle is the one the field held when the call was made, and what is
\* returned is the permissionGranted field as it is now
RequestStored(c) ==
    /\ calls[c].op = "requestDirectoryAccess"
    /\ calls[c].pc = "store.add"
    /\ calls[c].tok # Null
    /\ store' = [store EXCEPT ![nextId] = calls[c].tok]
    /\ nextId' = nextId + 1
    /\ currentDirectoryId' = nextId
    /\ calls' = [calls EXCEPT ![c] =
                   Outcome([calls[c] EXCEPT !.id = nextId],
                           IF permissionGranted THEN "true" ELSE "false")]
    /\ removedActive' = (removedActive /\ ~permissionGranted)
    /\ neverActive' = (neverActive /\ ~permissionGranted)
    /\ UNCHANGED <<rootDirectoryHandle, permissionGranted, hostPerm,
                   listed, validatorVars, fsVars>>

\* storeDirectoryHandle rejects (the store fails, or the handle passed was
\* null and reading its name throws): the catch block runs
RequestStoreFailed(c) ==
    /\ calls[c].op = "requestDirectoryAccess"
    /\ calls[c].pc = "store.add"
    /\ permissionGranted' = FALSE
    /\ Finish(c, "throw:Storage")
    /\ UNCHANGED <<storeVars, rootDirectoryHandle, currentDirectoryId, hostPerm,
                   listed, validatorVars, fsVars, removedActive, neverActive>>

(***************************************************************************)
(* switchDirectory(directoryId)                                            *)
(***************************************************************************)
\* the ids a caller can name: those a listing has shown it (the ids are
\* random strings, and only getStoredDirectories returns them), and one
\* that no record ever had
CallableIds == listed \cup {UnknownId}

StartSwitch(c, directoryId) ==
    /\ Free(c)
    /\ directoryId \in CallableIds
    /\ calls' = [calls EXCEPT ![c] =
                   [Idle EXCEPT !.op = "switchDirectory", !.pc = "store.get",
                                !.id = directoryId]]
    /\ UNCHANGED <<storeVars, sessionVars, hostPerm, listed, validatorVars, fsVars, removedActive, neverActive>>

\* store.get answers, and a missing record is reported by returning false
SwitchGot_ReturnsFalse(c) ==
    /\ calls[c].op = "switchDirectory"
    /\ calls[c].pc = "store.get"
    /\ IF StoreGet(calls[c].id) = Null
       THEN Finish(c, "false")
       ELSE calls' = [calls EXCEPT ![c].pc = "queryPermission",
                                   ![c].tok = StoreGet(calls[c].id)]
    /\ UNCHANGED <<storeVars, sessionVars, hostPerm, listed, validatorVars, fsVars, removedActive, neverActive>>

\* store.get answers, and the `if (!dirRecord)` test is missing: reading
\* dirRecord.handle of null throws a TypeError
SwitchGot_NoRecordTest(c) ==
    /\ calls[c].op = "switchDirectory"
    /\ calls[c].pc = "store.get"
    /\ IF StoreGet(calls[c].id) = Null
       THEN Finish(c, "throw:TypeError")
       ELSE calls' = [calls EXCEPT ![c].pc = "queryPermission",
                                   ![c].tok = StoreGet(calls[c].id)]
    /\ UNCHANGED <<storeVars, sessionVars, hostPerm, listed, validatorVars, fsVars, removedActive, neverActive>>

\* store.get answers: no record throws 'not found', a record starts verifyPermission
SwitchGot(c) ==
    /\ calls[c].op = "switchDirectory"
    /\ calls[c].pc = "store.get"
    /\ IF StoreGet(calls[c].id) = Null
       THEN Finish(c, "throw:NotFound")
       ELSE calls' = [calls EXCEPT ![c].pc = "queryPermission",
                                   ![c].tok = StoreGet(calls[c].id)]
    /\ UNCHANGED <<storeVars, sessionVars, hostPerm, listed, validatorVars, fsVars, removedActive, neverActive>>

SwitchGetFailed(c) ==
    /\ calls[c].op = "switchDirectory"
    /\ calls[c].pc = "store.get"
    /\ Finish(c, "throw:Storage")
    /\ UNCHANGED <<storeVars, sessionVars, hostPerm, listed, validatorVars, fsVars, removedActive, neverActive>>

SwitchQueryResolved(c) ==
    /\ calls[c].op = "switchDirectory"
    /\ calls[c].pc = "queryPermission"
    /\ IF hostPerm[calls[c].tok] = "granted"
       THEN /\ permissionGranted' = TRUE
            /\ rootDirectoryHandle' = calls[c].tok
            /\ currentDirectoryId' = calls[c].id
            /\ calls' = [calls EXCEPT ![c] =
                           Outcome([calls[c] EXCEPT !.queried = TRUE], "true")]
            /\ removedActive' = FALSE
            /\ neverActive' = FALSE
       ELSE /\ calls' = [calls EXCEPT ![c].pc = "requestPermission",
                                      ![c].queried = TRUE]
            /\ UNCHANGED <<sessionVars, removedActive, neverActive>>
    /\ UNCHANGED <<storeVars, hostPerm, listed, validatorVars, fsVars>>

SwitchAskResolved(c, answer) ==
    /\ calls[c].op = "switchDirectory"
    /\ calls[c].pc = "requestPermission"
    /\ answer \in HostAnswers(calls[c].tok)
    /\ hostPerm' = [hostPerm EXCEPT ![calls[c].tok] = answer]
    /\ permissionGranted' = (answer = "granted")
    /\ IF answer = "granted"
       THEN /\ rootDirectoryHandle' = calls[c].tok
            /\ currentDirectoryId' = calls[c].id
            /\ removedActive' = FALSE
            /\ neverActive' = FALSE
       ELSE UNCHANGED <<rootDirectoryHandle, currentDirectoryId, removedActive, neverActive>>
    /\ calls' = [calls EXCEPT ![c] =
                   Outcome([calls[c] EXCEPT !.prompted = TRUE],
                           IF answer = "granted" THEN "true" ELSE "false")]
    /\ UNCHANGED <<storeVars, listed, validatorVars, fsVars>>

\* queryPermission or requestPermission rejects: nothing was assigned yet
SwitchHostFailed(c) ==
    /\ calls[c].op = "switchDirectory"
    /\ calls[c].pc \in {"queryPermission", "requestPermission"}
    /\ Finish(c, "throw:HostApi")
    /\ UNCHANGED <<storeVars, sessionVars, hostPerm, listed, validatorVars, fsVars, removedActive, neverActive>>

\* FileAccessManager.requestDirectoryAccess: what it makes of the manager's result
FileAccessManagerRequestDirectoryAccess(result) ==
    IF result = "true" THEN "success:true"
    ELSE IF result = "false" THEN "success:false"
    ELSE "error"

\* FileAccessManager.switchDirectory: what it makes of the manager's result
FileAccessManagerSwitchDirectory(result) ==
    IF result = "true" THEN "success:true"
    ELSE IF result = "false" THEN "success:false"
    ELSE "throw"

\* FileAccessPlugin's command handlers: the record a command answers with,
\* given what the manager's method behind it returned or threw.  Each handler
\* is one try block whose catch returns {error: true, message}.
FileAccessPluginCommand(op, result) ==
    CASE op = "requestDirectoryAccess" ->
            IF FileAccessManagerRequestDirectoryAccess(result) = "success:true"
            THEN "success:true" ELSE "error"
      [] op = "switchDirectory" ->
            IF FileAccessManagerSwitchDirectory(result) = "throw" THEN "error"
            ELSE FileAccessManagerSwitchDirectory(result)
      [] op = "removeDirectory" ->
            IF result = "true" THEN "success:true"
            ELSE IF result = "false" THEN "success:false"
            ELSE "error"
      [] op = "getStoredDirectories" ->
            IF result = "list" THEN "directoryList" ELSE "error"
      [] op = "listFiles" -> IF result = "ok" THEN "fileList" ELSE "error"
      [] op = "readFile" -> IF result = "ok" THEN "file" ELSE "error"
      [] op = "writeFile" -> IF result = "ok" THEN "success:true" ELSE "error"
      [] OTHER -> "none"

(***************************************************************************)
(* removeDirectory(directoryId)                                            *)
(***************************************************************************)
StartRemove_ClearsAlways(c, directoryId) ==
    /\ Free(c)
    /\ directoryId \in CallableIds
    /\ rootDirectoryHandle' = Null
    /\ permissionGranted' = FALSE
    /\ currentDirectoryId' = NullId
    /\ calls' = [calls EXCEPT ![c] =
                   [Idle EXCEPT !.op = "removeDirectory", !.pc = "store.delete",
                                !.id = directoryId,
                                !.wasActive = (currentDirectoryId = directoryId)]]
    /\ UNCHANGED <<storeVars, hostPerm, listed, validatorVars, fsVars, removedActive, neverActive>>

StartRemove(c, directoryId) ==
    /\ Free(c)
    /\ directoryId \in CallableIds
    /\ IF currentDirectoryId = directoryId
       THEN /\ rootDirectoryHandle' = Null
            /\ permissionGranted' = FALSE
            /\ currentDirectoryId' = NullId
       ELSE UNCHANGED sessionVars
    /\ calls' = [calls EXCEPT ![c] =
                   [Idle EXCEPT !.op = "removeDirectory", !.pc = "store.delete",
                                !.id = directoryId,
                                !.wasActive = (currentDirectoryId = directoryId)]]
    /\ UNCHANGED <<storeVars, hostPerm, listed, validatorVars, fsVars, removedActive, neverActive>>

\* store.delete answers, and the call reports whether a record was there
RemoveDone_ReportsAbsence(c) ==
    /\ calls[c].op = "removeDirectory"
    /\ calls[c].pc = "store.delete"
    /\ store' = [i \in DOMAIN store |->
                   IF i = calls[c].id THEN Null ELSE store[i]]
    /\ calls' = [calls EXCEPT ![c] =
                   Outcome([calls[c] EXCEPT !.found = (StoreGet(calls[c].id) # Null)],
                           IF StoreGet(calls[c].id) # Null THEN "true" ELSE "false")]
    /\ removedActive' = (removedActive \/ calls[c].wasActive)
    /\ UNCHANGED <<neverActive, nextId, sessionVars, hostPerm, listed, validatorVars, fsVars>>

RemoveDone(c) ==
    /\ calls[c].op = "removeDirectory"
    /\ calls[c].pc = "store.delete"
    /\ store' = [i \in DOMAIN store |->
                   IF i = calls[c].id THEN Null ELSE store[i]]
    /\ calls' = [calls EXCEPT ![c] =
                   Outcome([calls[c] EXCEPT !.found = (StoreGet(calls[c].id) # Null)],
                           "true")]
    /\ removedActive' = (removedActive \/ calls[c].wasActive)
    /\ UNCHANGED <<neverActive, nextId, sessionVars, hostPerm, listed, validatorVars, fsVars>>

RemoveFailed(c) ==
    /\ calls[c].op = "removeDirectory"
    /\ calls[c].pc = "store.delete"
    /\ Finish(c, "throw:Storage")
    /\ UNCHANGED <<storeVars, sessionVars, hostPerm, listed, validatorVars, fsVars, removedActive, neverActive>>

(***************************************************************************)
(* getStoredDirectories()                                                  *)
(***************************************************************************)
\* store.getAll's result: the records in key order, each <<id, handle>>
RECURSIVE RecordsFrom(_)
RecordsFrom(i) ==
    IF i > MaxGrants THEN <<>>
    ELSE IF store[i] = Null THEN RecordsFrom(i + 1)
    ELSE <<(<<i, store[i]>>)>> \o RecordsFrom(i + 1)

StartGetStored(c) ==
    /\ Free(c)
    /\ calls' = [calls EXCEPT ![c] =
                   [Idle EXCEPT !.op = "getStoredDirectories",
                                !.pc = "store.getAll"]]
    /\ UNCHANGED <<storeVars, sessionVars, hostPerm, listed, validatorVars, fsVars, removedActive, neverActive>>

GetStoredGotAll(c) ==
    /\ calls[c].op = "getStoredDirectories"
    /\ calls[c].pc = "store.getAll"
    /\ IF RecordsFrom(1) = <<>>
       THEN Finish(c, "list")
       ELSE calls' = [calls EXCEPT ![c].pc = "queryPermission",
                                   ![c].todo = RecordsFrom(1)]
    /\ UNCHANGED <<storeVars, sessionVars, hostPerm, listed, validatorVars, fsVars, removedActive, neverActive>>

GetStoredGetAllFailed(c) ==
    /\ calls[c].op = "getStoredDirectories"
    /\ calls[c].pc = "store.getAll"
    /\ Finish(c, "throw:Storage")
    /\ UNCHANGED <<storeVars, sessionVars, hostPerm, listed, validatorVars, fsVars, removedActive, neverActive>>

\* verifyPermission(dir.handle, false) answers or throws, and a throw is not
\* caught inside the loop: it ends the listing
GetStoredVerified_AbortsOnThrow(c, threw) ==
    /\ calls[c].op = "getStoredDirectories"
    /\ calls[c].pc = "queryPermission"
    /\ LET dir == Head(calls[c].todo)
           entry == [id |-> dir[1],
                     hasPermission |-> hostPerm[dir[2]] = "granted",
                     error |-> FALSE]
           after == [calls[c] EXCEPT !.todo = Tail(@),
                                     !.entries = @ \cup {entry},
                                     !.queried = TRUE]
       IN  /\ calls' = [calls EXCEPT ![c] =
                          IF threw THEN Outcome(calls[c], "throw:HostApi")
                          ELSE IF after.todo = <<>> THEN Outcome(after, "list")
                          ELSE after]
           /\ listed' = IF ~threw /\ after.todo = <<>>
                        THEN listed \cup {e.id : e \in after.entries}
                        ELSE listed
    /\ UNCHANGED <<storeVars, sessionVars, hostPerm, validatorVars, fsVars, removedActive, neverActive>>

\* verifyPermission called with askForPermission true: a permission that is
\* not granted is requested, and the user grants it
GetStoredVerified_AsksIfMissing(c, threw) ==
    /\ calls[c].op = "getStoredDirectories"
    /\ calls[c].pc = "queryPermission"
    /\ LET dir == Head(calls[c].todo)
           asked == ~threw /\ hostPerm[dir[2]] = "prompt"
           entry == [id |-> dir[1],
                     hasPermission |->
                        ~threw /\ hostPerm[dir[2]] \in {"granted", "prompt"},
                     error |-> threw]
           after == [calls[c] EXCEPT !.todo = Tail(@),
                                     !.entries = @ \cup {entry},
                                     !.queried = TRUE,
                                     !.prompted = @ \/ asked]
       IN  /\ calls' = [calls EXCEPT ![c] =
                          IF after.todo = <<>> THEN Outcome(after, "list")
                          ELSE after]
           /\ listed' = IF after.todo = <<>>
                        THEN listed \cup {e.id : e \in after.entries}
                        ELSE listed
           /\ hostPerm' = IF asked
                          THEN [hostPerm EXCEPT ![dir[2]] = "granted"]
                          ELSE hostPerm
    /\ UNCHANGED <<storeVars, sessionVars, validatorVars, fsVars, removedActive, neverActive>>

\* verifyPermission(dir.handle, false) answers (threw = FALSE) or throws
GetStoredVerified(c, threw) ==
    /\ calls[c].op = "getStoredDirectories"
    /\ calls[c].pc = "queryPermission"
    /\ LET dir == Head(calls[c].todo)
           entry == [id |-> dir[1],
                     hasPermission |-> ~threw /\ hostPerm[dir[2]] = "granted",
                     error |-> threw]
           after == [calls[c] EXCEPT !.todo = Tail(@),
                                     !.entries = @ \cup {entry},
                                     !.queried = TRUE]
       IN  /\ calls' = [calls EXCEPT ![c] =
                          IF after.todo = <<>> THEN Outcome(after, "list")
                          ELSE after]
           /\ listed' = IF after.todo = <<>>
                        THEN listed \cup {e.id : e \in after.entries}
                        ELSE listed
    /\ UNCHANGED <<storeVars, sessionVars, hostPerm, validatorVars, fsVars, removedActive, neverActive>>

(***************************************************************************)
(* The file operations.  A call's pc names the host request it awaits;     *)
(* segs holds the path segments still to be looked up, the first of them   *)
(* being the name of the pending getDirectoryHandle or getFileHandle.      *)
(***************************************************************************)
\* getDirectoryHandle(path) returns the root for '', '/' and '.'
IsRootDirectoryPath(path) == path = <<>> \/ path = <<"/">> \/ path = <<".">>

\* the request a walk over segs issues next, by operation
WalkPc(op, segs) ==
    IF op = "listFiles"
    THEN IF segs = <<>> THEN "values" ELSE "getDirectoryHandle"
    ELSE IF Len(segs) = 1 THEN "getFileHandle" ELSE "getDirectoryHandle"

\* the request that follows once the handle is there, by operation
HandlePc(op) ==
    IF op = "listFiles" THEN "values"
    ELSE IF op = "readFile" THEN "getFile"
    ELSE "createWritable"

PickerPc(op) ==
    IF op = "listFiles" THEN "showDirectoryPicker"
    ELSE IF op = "readFile" THEN "showOpenFilePicker"
    ELSE "showSaveFilePicker"

\* the branch `if (this.directoryManager.hasPermission() ...)` takes
\* the branch test with a path required by listFiles as well
UsesGrant_PathRequired(op, path) == hasPermission /\ path # <<>>

UsesGrant(op, path) ==
    IF op = "listFiles" THEN hasPermission ELSE hasPermission /\ path # <<>>

\* the requests that look something up in, or read or write, the host's file system
FsRequests ==
    {"getDirectoryHandle", "getFileHandle", "values", "getFile", "content",
     "createWritable", "write", "close"}

\* a name the host takes for a child: '.' and '..' are no file names
ValidName(name) == name # <<".">> /\ name # <<".", ".">>

\* whether the host carries out the pending request of call c
HostAccepts(c) ==
    /\ calls[c].eph \/ hostPerm[calls[c].tok] = "granted"
    /\ calls[c].pc \in {"getDirectoryHandle", "getFileHandle"}
          => ValidName(Head(calls[c].segs))

\* listFiles(directory), readFile(filePath), writeFile(filePath, content)
StartIo(c, op, path) ==
    /\ Free(c)
    /\ op \in IoOps
    /\ path \in OpPaths
    /\ LET call == [Idle EXCEPT !.op = op, !.path = path] IN
       IF UsesGrant(op, path)
       THEN LET segs == IF op = "listFiles" /\ IsRootDirectoryPath(path)
                        THEN <<>> ELSE Segments(path) IN
            calls' = [calls EXCEPT ![c] =
                        IF op # "listFiles" /\ segs = <<>>
                        THEN Outcome(call, "throw:EmptyPath")
                        ELSE [call EXCEPT !.pc = WalkPc(op, segs),
                                          !.segs = segs,
                                          !.tok = rootDirectoryHandle]]
       ELSE LET v == validateFilePath(path, hasPermission) IN
            calls' = [calls EXCEPT ![c] =
                        IF v # "ok"
                        THEN Outcome([call EXCEPT !.validated = TRUE], v)
                        ELSE [call EXCEPT !.pc = PickerPc(op),
                                          !.validated = TRUE]]
    /\ UNCHANGED <<storeVars, sessionVars, hostPerm, listed, validatorVars, fsVars, removedActive, neverActive>>

\* currentDir.getDirectoryHandle(segment, {create}) resolves
IoDirectoryFound(c) ==
    /\ calls[c].op \in IoOps
    /\ calls[c].pc = "getDirectoryHandle"
    /\ HostAccepts(c)
    /\ calls' = [calls EXCEPT ![c].segs = Tail(@),
                              ![c].pc = WalkPc(calls[c].op, Tail(calls[c].segs))]
    /\ UNCHANGED <<storeVars, sessionVars, hostPerm, listed, validatorVars, fsVars, removedActive, neverActive>>

\* currentDir.getFileHandle(fileName, {create}) resolves
IoFileFound(c) ==
    /\ calls[c].op \in IoOps
    /\ calls[c].pc = "getFileHandle"
    /\ HostAccepts(c)
    /\ calls' = [calls EXCEPT ![c].segs = <<>>, ![c].pc = HandlePc(calls[c].op)]
    /\ UNCHANGED <<storeVars, sessionVars, hostPerm, listed, validatorVars, fsVars, removedActive, neverActive>>

\* the one-shot picker returns a handle, and the handle is kept as the root
IoPicked_KeepsHandle(c, t) ==
    /\ calls[c].op \in IoOps
    /\ calls[c].pc = PickerPc(calls[c].op)
    /\ calls' = [calls EXCEPT ![c].tok = t, ![c].eph = TRUE,
                              ![c].pc = HandlePc(calls[c].op)]
    /\ rootDirectoryHandle' = t
    /\ UNCHANGED <<storeVars, permissionGranted, currentDirectoryId, hostPerm,
                   listed, validatorVars, fsVars, removedActive, neverActive>>

\* the one-shot picker of the fallback branch returns a handle
IoPicked(c, t) ==
    /\ calls[c].op \in IoOps
    /\ calls[c].pc = PickerPc(calls[c].op)
    /\ calls' = [calls EXCEPT ![c].tok = t, ![c].eph = TRUE,
                              ![c].pc = HandlePc(calls[c].op)]
    /\ UNCHANGED <<storeVars, sessionVars, hostPerm, listed, validatorVars, fsVars, removedActive, neverActive>>

\* getFile() resolves, and a file of exactly maxFileSize is rejected too
ReadGotFile_RejectsAtLimit(c, size) ==
    /\ calls[c].op = "readFile"
    /\ calls[c].pc = "getFile"
    /\ HostAccepts(c)
    /\ size \in FileSizes
    /\ IF size >= maxFileSize
       THEN calls' = [calls EXCEPT ![c] =
                        Outcome([calls[c] EXCEPT !.size = size],
                                "throw:LimitExceeded")]
       ELSE calls' = [calls EXCEPT ![c].pc = "content", ![c].size = size]
    /\ UNCHANGED <<storeVars, sessionVars, hostPerm, listed, validatorVars, fsVars, removedActive, neverActive>>

\* readFile: getFile() resolves with a file of the given size
ReadGotFile(c, size) ==
    /\ calls[c].op = "readFile"
    /\ calls[c].pc = "getFile"
    /\ HostAccepts(c)
    /\ size \in FileSizes
    /\ IF size > maxFileSize
       THEN calls' = [calls EXCEPT ![c] =
                        Outcome([calls[c] EXCEPT !.size = size],
                                "throw:LimitExceeded")]
       ELSE calls' = [calls EXCEPT ![c].pc = "content", ![c].size = size]
    /\ UNCHANGED <<storeVars, sessionVars, hostPerm, listed, validatorVars, fsVars, removedActive, neverActive>>

\* writeFile: createWritable() and write(content) resolve
WriteAdvanced(c) ==
    /\ calls[c].op = "writeFile"
    /\ calls[c].pc \in {"createWritable", "write"}
    /\ HostAccepts(c)
    /\ calls' = [calls EXCEPT ![c].pc =
                   IF calls[c].pc = "createWritable" THEN "write" ELSE "close"]
    /\ UNCHANGED <<storeVars, sessionVars, hostPerm, listed, validatorVars, fsVars, removedActive, neverActive>>

\* the last request of the operation resolves and the operation returns
IoDone(c) ==
    /\ calls[c].op \in IoOps
    /\ calls[c].pc \in {"values", "content", "close"}
    /\ HostAccepts(c)
    /\ Finish(c, "ok")
    /\ UNCHANGED <<storeVars, sessionVars, hostPerm, listed, validatorVars, fsVars, removedActive, neverActive>>

\* the pending request rejects (not found, not allowed, cancelled, ...)
IoFailed(c) ==
    /\ calls[c].op \in IoOps
    /\ ~Free(c)
    /\ Finish(c, "throw:Host")
    /\ UNCHANGED <<storeVars, sessionVars, hostPerm, listed, validatorVars, fsVars, removedActive, neverActive>>

(***************************************************************************)
(* getFileHandle(path), getDirectoryHandle(path), createFileHandle(path),  *)
(* called on the manager itself.                                           *)
(***************************************************************************)
ResolveOps == {"getFileHandle", "getDirectoryHandle", "createFileHandle"}

\* the request a walk over segs issues next; none is left when a directory
\* walk has used up its segments
ResolvePc(op, segs) ==
    IF op = "getDirectoryHandle"
    THEN IF segs = <<>> THEN "done" ELSE "getDirectoryHandle"
    ELSE IF Len(segs) = 1 THEN "getFileHandle" ELSE "getDirectoryHandle"

\* the code up to the first await: the test of rootDirectoryHandle, the root
\* paths of getDirectoryHandle, the split into segments
StartResolve(c, op, path) ==
    /\ Free(c)
    /\ op \in ResolveOps
    /\ path \in OpPaths
    /\ LET call == [Idle EXCEPT !.op = op, !.path = path]
           segs == Segments(path)
       IN  calls' = [calls EXCEPT ![c] =
              IF rootDirectoryHandle = Null
              THEN Outcome(call, "throw:NoDirectoryPermission")
              ELSE IF op = "getDirectoryHandle" /\ IsRootDirectoryPath(path)
              THEN Outcome(call, "handle")
              ELSE IF op # "getDirectoryHandle" /\ segs = <<>>
              THEN Outcome(call, "throw:EmptyPath")
              ELSE IF ResolvePc(op, segs) = "done"
              THEN Outcome(call, "handle")
              ELSE [call EXCEPT !.pc = ResolvePc(op, segs), !.segs = segs,
                                !.tok = rootDirectoryHandle]]
    /\ UNCHANGED <<storeVars, sessionVars, hostPerm, listed, validatorVars,
                   fsVars, removedActive, neverActive>>

\* currentDir.getDirectoryHandle(segment, {create}) resolves
ResolveDirectoryFound(c) ==
    /\ calls[c].op \in ResolveOps
    /\ calls[c].pc = "getDirectoryHandle"
    /\ hostPerm[calls[c].tok] = "granted"
    /\ Head(calls[c].segs) # <<".">> /\ Head(calls[c].segs) # <<".", ".">>
    /\ LET rest == Tail(calls[c].segs) IN
       calls' = [calls EXCEPT ![c] =
                   IF ResolvePc(calls[c].op, rest) = "done"
                   THEN Outcome(calls[c], "handle")
                   ELSE [calls[c] EXCEPT !.segs = rest,
                                         !.pc = ResolvePc(calls[c].op, rest)]]
    /\ UNCHANGED <<storeVars, sessionVars, hostPerm, listed, validatorVars,
                   fsVars, removedActive, neverActive>>

\* currentDir.getFileHandle(fileName, {create}) resolves
ResolveFileFound(c) ==
    /\ calls[c].op \in ResolveOps
    /\ calls[c].pc = "getFileHandle"
    /\ hostPerm[calls[c].tok] = "granted"
    /\ Head(calls[c].segs) # <<".">> /\ Head(calls[c].segs) # <<".", ".">>
    /\ Finish(c, "handle")
    /\ UNCHANGED <<storeVars, sessionVars, hostPerm, listed, validatorVars,
                   fsVars, removedActive, neverActive>>

\* the pending lookup rejects: the catch block rethrows
ResolveFailed(c) ==
    /\ calls[c].op \in ResolveOps
    /\ ~Free(c)
    /\ Finish(c, "throw:Host")
    /\ UNCHANGED <<storeVars, sessionVars, hostPerm, listed, validatorVars,
                   fsVars, removedActive, neverActive>>

(***************************************************************************)
(* verifyPermission(dirHandle, askForPermission), called on the manager    *)
(* itself.                                                                 *)
(***************************************************************************)
StartVerify(c, dirHandle, askForPermission) ==
    /\ Free(c)
    /\ dirHandle \in Tokens
    /\ calls' = [calls EXCEPT ![c] =
                   [Idle EXCEPT !.op = "verifyPermission",
                                !.pc = "queryPermission",
                                !.tok = dirHandle, !.ask = askForPermission]]
    /\ UNCHANGED <<storeVars, sessionVars, hostPerm, listed, validatorVars,
                   fsVars, removedActive, neverActive>>

\* queryPermission answers, and the prompt follows whatever askForPermission is
VerifyQueryResolved_AsksAnyway(c) ==
    /\ calls[c].op = "verifyPermission"
    /\ calls[c].pc = "queryPermission"
    /\ calls' = [calls EXCEPT ![c] =
                   IF hostPerm[calls[c].tok] = "granted"
                   THEN Outcome([calls[c] EXCEPT !.queried = TRUE], "true")
                   ELSE [calls[c] EXCEPT !.pc = "requestPermission",
                                         !.queried = TRUE]]
    /\ UNCHANGED <<storeVars, sessionVars, hostPerm, listed, validatorVars,
                   fsVars, removedActive, neverActive>>

\* dirHandle.queryPermission(options) answers
VerifyQueryResolved(c) ==
    /\ calls[c].op = "verifyPermission"
    /\ calls[c].pc = "queryPermission"
    /\ calls' = [calls EXCEPT ![c] =
                   IF hostPerm[calls[c].tok] = "granted"
                   THEN Outcome([calls[c] EXCEPT !.queried = TRUE], "true")
                   ELSE IF calls[c].ask
                   THEN [calls[c] EXCEPT !.pc = "requestPermission",
                                         !.queried = TRUE]
                   ELSE Outcome([calls[c] EXCEPT !.queried = TRUE], "false")]
    /\ UNCHANGED <<storeVars, sessionVars, hostPerm, listed, validatorVars,
                   fsVars, removedActive, neverActive>>

\* dirHandle.requestPermission(options) answers
VerifyAskResolved(c, answer) ==
    /\ calls[c].op = "verifyPermission"
    /\ calls[c].pc = "requestPermission"
    /\ answer \in HostAnswers(calls[c].tok)
    /\ hostPerm' = [hostPerm EXCEPT ![calls[c].tok] = answer]
    /\ calls' = [calls EXCEPT ![c] =
                   Outcome([calls[c] EXCEPT !.prompted = TRUE],
                           IF answer = "granted" THEN "true" ELSE "false")]
    /\ UNCHANGED <<storeVars, sessionVars, listed, validatorVars,
                   fsVars, removedActive, neverActive>>

\* queryPermission or requestPermission rejects: nothing catches it here
VerifyHostFailed(c) ==
    /\ calls[c].op = "verifyPermission"
    /\ calls[c].pc \in {"queryPermission", "requestPermission"}
    /\ Finish(c, "throw:HostApi")
    /\ UNCHANGED <<storeVars, sessionVars, hostPerm, listed, validatorVars,
                   fsVars, removedActive, neverActive>>

(***************************************************************************)
(* A page reload: new manager objects over the same durable store.         *)
(***************************************************************************)
Reload ==
    /\ \E c \in Slots : calls[c] # Idle
    /\ rootDirectoryHandle' = Null
    /\ permissionGranted' = FALSE
    /\ currentDirectoryId' = NullId
    /\ calls' = [c \in Slots |-> Idle]
    /\ removedActive' = FALSE
    /\ neverActive' = TRUE
    /\ UNCHANGED <<storeVars, hostPerm, listed, validatorVars, fsVars>>

MgrNext(c) ==
    \/ StartRequest(c)
    \/ \E t \in Tokens, g \in BOOLEAN : RequestPicked(c, t, g)
    \/ RequestCancelled(c)
    \/ RequestQueryResolved(c)
    \/ \E answer \in {"granted", "denied"} : RequestAskResolved(c, answer)
    \/ RequestHostFailed(c)
    \/ RequestStored(c)
    \/ RequestStoreFailed(c)
    \/ \E id \in Ids \cup {UnknownId} : StartSwitch(c, id)
    \/ SwitchGot(c)
    \/ SwitchGetFailed(c)
    \/ SwitchQueryResolved(c)
    \/ \E answer \in {"granted", "denied"} : SwitchAskResolved(c, answer)
    \/ SwitchHostFailed(c)
    \/ \E id \in Ids \cup {UnknownId} : StartRemove(c, id)
    \/ RemoveDone(c)
    \/ RemoveFailed(c)
    \/ StartGetStored(c)
    \/ GetStoredGotAll(c)
    \/ GetStoredGetAllFailed(c)
    \/ \E threw \in BOOLEAN : GetStoredVerified(c, threw)

IoNext(c) ==
    \/ \E op \in IoOps, path \in OpPaths : StartIo(c, op, path)
    \/ IoDirectoryFound(c)
    \/ IoFileFound(c)
    \/ \E t \in Tokens : IoPicked(c, t)
    \/ \E size \in FileSizes : ReadGotFile(c, size)
    \/ WriteAdvanced(c)
    \/ IoDone(c)
    \/ IoFailed(c)

\* One caller: it issues a command when the one before has returned, while
\* the host may withdraw permissions in between and the page may be reloaded.
Next ==
    \/ MgrNext("s1")
    \/ IoNext("s1")
    \/ \E t \in Tokens : HostRevoke(t)
    \/ Reload

Spec == Init /\ [][Next]_vars

ResolveNext(c) ==
    \/ \E op \in ResolveOps, path \in OpPaths : StartResolve(c, op, path)
    \/ ResolveDirectoryFound(c)
    \/ ResolveFileFound(c)
    \/ ResolveFailed(c)

VerifyNext(c) ==
    \/ \E t \in Tokens, ask \in BOOLEAN : StartVerify(c, t, ask)
    \/ VerifyQueryResolved(c)
    \/ \E answer \in {"granted", "denied"} : VerifyAskResolved(c, answer)
    \/ VerifyHostFailed(c)

\* One caller of the DirectoryPermissionManager itself: the grant operations,
\* the three lookups and verifyPermission, one at a time.
NextManager ==
    \/ MgrNext("s1")
    \/ ResolveNext("s1")
    \/ VerifyNext("s1")
    \/ \E t \in Tokens : HostRevoke(t)
    \/ Reload

SpecManager == Init /\ [][NextManager]_vars

(***************************************************************************)
(* Two callers.  Nothing serializes the handlers: a second command is      *)
(* dispatched while the first one is suspended at an await, and the two    *)
(* run interleaved at their awaits on the same manager.                    *)
(***************************************************************************)
RequestNext(c) ==
    \/ StartRequest(c)
    \/ \E t \in Tokens, g \in BOOLEAN : RequestPicked(c, t, g)
    \/ RequestCancelled(c)
    \/ RequestQueryResolved(c)
    \/ \E answer \in {"granted", "denied"} : RequestAskResolved(c, answer)
    \/ RequestHostFailed(c)
    \/ RequestStored(c)
    \/ RequestStoreFailed(c)

SwitchNext(c) ==
    \/ \E id \in Ids \cup {UnknownId} : StartSwitch(c, id)
    \/ SwitchGot(c)
    \/ SwitchGetFailed(c)
    \/ SwitchQueryResolved(c)
    \/ \E answer \in {"granted", "denied"} : SwitchAskResolved(c, answer)
    \/ SwitchHostFailed(c)

RemoveNext(c) ==
    \/ \E id \in Ids \cup {UnknownId} : StartRemove(c, id)
    \/ RemoveDone(c)
    \/ RemoveFailed(c)

\* One caller issues the grant commands one at a time; a second caller
\* issues requests, switches and removals while the first one's command is
\* pending.
NextConcurrentGrants ==
    \/ MgrNext("s1")
    \/ RequestNext("s2")
    \/ SwitchNext("s2")
    \/ RemoveNext("s2")
    \/ \E t \in Tokens : HostRevoke(t)

SpecConcurrentGrants == Init /\ [][NextConcurrentGrants]_vars

\* One caller issues requests; a second caller lists, reads and writes while
\* a request is pending.
NextConcurrentIo ==
    \/ RequestNext("s1")
    \/ IoNext("s2")
    \/ \E t \in Tokens : HostRevoke(t)

SpecConcurrentIo == Init /\ [][NextConcurrentIo]_vars

(***************************************************************************)
(* The file operations under a grant on the directory "dirA", with the     *)
(* contents of that directory as state.  A node of the tree is the         *)
(* sequence of names that leads from the root to it.  A content is a       *)
(* sequence of characters; what a file holds is the sequence of the        *)
(* characters encoded in it.                                               *)
(***************************************************************************)
TreeToken == "dirA"

\* characters beyond ASCII: a letter of two bytes in UTF-8, the byte order
\* mark, an unpaired surrogate, the replacement character
c_eacute == "U+00E9"
c_bom == "U+FEFF"
c_surrogate == "U+D800"
c_replacement == "U+FFFD"

\* the strings writeFile is called with
Contents ==
    {<<>>, <<"h", "i">>, <<c_eacute>>, <<c_bom, "h">>, <<c_surrogate>>}

\* the bytes a character takes in UTF-8
Utf8Width(ch) ==
    IF ch = c_eacute THEN 2
    ELSE IF ch \in {c_bom, c_replacement} THEN 3
    ELSE 1

\* writable.write(string): the string is taken as a USVString, where an
\* unpaired surrogate becomes U+FFFD, and encoded as UTF-8
Utf8Encode(str) ==
    [i \in 1..Len(str) |->
       IF str[i] = c_surrogate THEN c_replacement ELSE str[i]]

\* file.size
RECURSIVE ByteLength(_)
ByteLength(data) ==
    IF data = <<>> THEN 0
    ELSE Utf8Width(Head(data)) + ByteLength(Tail(data))

\* file.text(): UTF-8 decoding, which drops a byte order mark at the start
Utf8Decode(data) ==
    IF data # <<>> /\ Head(data) = c_bom THEN Tail(data) ELSE data

\* reader.readAsDataURL(file): the data behind a 'data:' prefix
DataUrl(data) == <<"data:">> \o data

\* path.lastIndexOf('.') counted from 1, and 0 when there is no dot
LastDot(name) ==
    IF \E i \in 1..Len(name) : name[i] = "."
    THEN CHOOSE i \in 1..Len(name) :
            name[i] = "." /\ \A j \in (i + 1)..Len(name) : name[j] # "."
    ELSE 0

\* path.slice((path.lastIndexOf('.') - 1 >>> 0) + 2): what follows the last
\* dot, and '' when there is no dot or the only dot comes first
getFileExtension(name) ==
    IF LastDot(name) <= 1 THEN <<>>
    ELSE SubSeq(name, LastDot(name) + 1, Len(name))

textExtensions ==
    { <<"t","x","t">>, <<"m","d">>, <<"j","s">>, <<"j","s","x">>, <<"t","s">>,
      <<"t","s","x">>, <<"h","t","m","l">>, <<"c","s","s">>,
      <<"j","s","o","n">>, <<"c","s","v">>, <<"x","m","l">>, <<"p","y">>,
      <<"j","a","v","a">>, <<"c">>, <<"c","p","p">>, <<"h">>, <<"r","b">> }

isTextFile(name) == toLowerCase(getFileExtension(name)) \in textExtensions

\* str.replace(/\/+/g, '/')
RECURSIVE CollapseSlashes(_)
CollapseSlashes(str) ==
    IF Len(str) < 2 THEN str
    ELSE IF str[1] = "/" /\ str[2] = "/" THEN CollapseSlashes(Tail(str))
    ELSE <<str[1]>> \o CollapseSlashes(Tail(str))

\* the paths the operations are called with
q_d == <<"d">>
q_d_slash == <<"d", "/">>
q_d_f_c == <<"d", "/", "f", ".", "c">>
q_d_g == <<"d", "/", "g">>

TreeListPaths == {p_empty, q_d, q_d_slash}
TreeFilePaths == {q_d_f_c, q_d_g}

Parent(node) == SubSeq(node, 1, Len(node) - 1)
LastName(node) == node[Len(node)]

\* the entries dirHandle.values() yields for the directory at node
Children(node) ==
    {[name |-> LastName(n), kind |-> "directory"] :
        n \in {m \in dirs : Parent(m) = node}}
    \cup {[name |-> LastName(n), kind |-> "file"] :
        n \in {m \in DOMAIN files : Parent(m) = node}}

\* what a file operation leaves behind when it returns or throws; stream
\* stays: the requests the host has carried out on the call's writable
\* stream, createWritable ("open") first
TreeOutcome(call, result) ==
    [call EXCEPT !.pc = "done", !.result = result, !.segs = <<>>,
                 !.cur = <<>>, !.data = <<>>, !.tok = Null]

\* the call that returned before this one: operation, path, result, and the
\* nodes it created
Summary(call) ==
    IF call.pc = "done"
    THEN <<call.op, call.path, call.result, call.created>>
    ELSE <<>>

TreeInit ==
    /\ store = [i \in Ids |-> IF i = 1 THEN TreeToken ELSE Null]
    /\ nextId = 2
    /\ rootDirectoryHandle = TreeToken
    /\ permissionGranted = TRUE
    /\ currentDirectoryId = 1
    /\ hostPerm = [t \in Tokens |-> IF t = TreeToken THEN "granted" ELSE "prompt"]
    /\ calls = [c \in Slots |-> Idle]
    /\ listed = {1}
    /\ removedActive = FALSE
    /\ neverActive = FALSE
    /\ dirs = {}
    /\ files = [p \in {} |-> <<>>]
    /\ written = [p \in {} |-> <<>>]
    /\ vpath = <<>>
    /\ vgrant = FALSE
    /\ vresult = "none"

\* listFiles(directory), readFile(filePath), writeFile(filePath, content) up
\* to the first lookup, in the branch taken when hasPermission() holds
TreeStart(c, op, path, content) ==
    /\ Free(c)
    /\ op \in IoOps
    /\ path \in (IF op = "listFiles" THEN TreeListPaths ELSE TreeFilePaths)
    /\ content \in (IF op = "writeFile" THEN Contents ELSE {<<>>})
    /\ UsesGrant(op, path)
    /\ rootDirectoryHandle = TreeToken
    /\ LET call == [Idle EXCEPT !.op = op, !.path = path, !.content = content,
                                !.after = Summary(calls[c])]
           segs == IF op = "listFiles" /\ IsRootDirectoryPath(path)
                   THEN <<>> ELSE Segments(path)
       IN  /\ calls' = [calls EXCEPT ![c] =
                          IF op # "listFiles" /\ segs = <<>>
                          THEN TreeOutcome(call, "throw:EmptyPath")
                          ELSE [call EXCEPT !.pc = WalkPc(op, segs),
                                            !.segs = segs,
                                            !.tok = rootDirectoryHandle]]
           /\ written' = IF op = "writeFile"
                         THEN [n \in DOMAIN written \ {segs} |-> written[n]]
                         ELSE written
    /\ UNCHANGED <<storeVars, sessionVars, hostPerm, listed, validatorVars,
                   dirs, files, removedActive, neverActive>>

\* the lookup of a directory with create true whatever the operation
TreeDirectoryStep_CreatesAlways(c) ==
    /\ calls[c].op \in IoOps
    /\ calls[c].pc = "getDirectoryHandle"
    /\ calls[c].tok = TreeToken
    /\ HostAccepts(c)
    /\ LET node == Append(calls[c].cur, Head(calls[c].segs))
           rest == Tail(calls[c].segs)
           on == [calls[c] EXCEPT !.cur = node, !.segs = rest,
                                  !.pc = WalkPc(calls[c].op, rest)]
       IN  IF node \in dirs
           THEN /\ calls' = [calls EXCEPT ![c] = on]
                /\ UNCHANGED dirs
           ELSE IF node \notin DOMAIN files
           THEN /\ calls' = [calls EXCEPT ![c] =
                               [on EXCEPT !.created = @ \cup {node}]]
                /\ dirs' = dirs \cup {node}
           ELSE /\ calls' = [calls EXCEPT ![c] =
                               TreeOutcome(calls[c], "throw:NotFound")]
                /\ UNCHANGED dirs
    /\ UNCHANGED <<storeVars, sessionVars, hostPerm, listed, validatorVars,
                   files, written, removedActive, neverActive>>

\* currentDir.getDirectoryHandle(segment, {create}) answers: create is true
\* in createFileHandle only
TreeDirectoryStep(c) ==
    /\ calls[c].op \in IoOps
    /\ calls[c].pc = "getDirectoryHandle"
    /\ calls[c].tok = TreeToken
    /\ HostAccepts(c)
    /\ LET node == Append(calls[c].cur, Head(calls[c].segs))
           rest == Tail(calls[c].segs)
           create == calls[c].op = "writeFile"
           on == [calls[c] EXCEPT !.cur = node, !.segs = rest,
                                  !.pc = WalkPc(calls[c].op, rest)]
       IN  IF node \in dirs
           THEN /\ calls' = [calls EXCEPT ![c] = on]
                /\ UNCHANGED dirs
           ELSE IF create /\ node \notin DOMAIN files
           THEN /\ calls' = [calls EXCEPT ![c] =
                               [on EXCEPT !.created = @ \cup {node}]]
                /\ dirs' = dirs \cup {node}
           ELSE /\ calls' = [calls EXCEPT ![c] =
                               TreeOutcome(calls[c], "throw:NotFound")]
                /\ UNCHANGED dirs
    /\ UNCHANGED <<storeVars, sessionVars, hostPerm, listed, validatorVars,
                   files, written, removedActive, neverActive>>

\* currentDir.getFileHandle(fileName, {create}) answers
TreeFileStep(c) ==
    /\ calls[c].op \in IoOps
    /\ calls[c].pc = "getFileHandle"
    /\ calls[c].tok = TreeToken
    /\ HostAccepts(c)
    /\ LET node == Append(calls[c].cur, Head(calls[c].segs))
           create == calls[c].op = "writeFile"
           on == [calls[c] EXCEPT !.cur = node, !.segs = <<>>,
                                  !.pc = HandlePc(calls[c].op)]
       IN  IF node \in DOMAIN files
           THEN /\ calls' = [calls EXCEPT ![c] = on]
                /\ UNCHANGED files
           ELSE IF create /\ node \notin dirs
           THEN /\ calls' = [calls EXCEPT ![c] =
                               [on EXCEPT !.created = @ \cup {node}]]
                /\ files' = [n \in DOMAIN files \cup {node} |->
                               IF n = node THEN <<>> ELSE files[n]]
           ELSE /\ calls' = [calls EXCEPT ![c] =
                               TreeOutcome(calls[c], "throw:NotFound")]
                /\ UNCHANGED files
    /\ UNCHANGED <<storeVars, sessionVars, hostPerm, listed, validatorVars,
                   dirs, written, removedActive, neverActive>>

\* readFile: getFile() answers with the file as it is now, and its size is
\* tested before its content is asked for
TreeGetFile(c) ==
    /\ calls[c].op = "readFile"
    /\ calls[c].pc = "getFile"
    /\ calls[c].tok = TreeToken
    /\ HostAccepts(c)
    /\ LET data == files[calls[c].cur]
           name == LastName(calls[c].cur)
           file == [calls[c] EXCEPT !.data = data, !.name = name,
                                    !.size = ByteLength(data)]
       IN  calls' = [calls EXCEPT ![c] =
                       IF file.size > maxFileSize
                       THEN TreeOutcome(file, "throw:LimitExceeded")
                       ELSE [file EXCEPT !.pc = IF isTextFile(name) THEN "text"
                                                ELSE "readAsDataURL"]]
    /\ UNCHANGED <<storeVars, sessionVars, hostPerm, listed, validatorVars,
                   fsVars, removedActive, neverActive>>

\* readFile: file.text() or readAsDataURL answers and readFile returns
TreeContent(c) ==
    /\ calls[c].op = "readFile"
    /\ calls[c].pc \in {"text", "readAsDataURL"}
    /\ calls[c].tok = TreeToken
    /\ calls' = [calls EXCEPT ![c] =
                   TreeOutcome([calls[c] EXCEPT !.content =
                                  IF calls[c].pc = "text"
                                  THEN Utf8Decode(calls[c].data)
                                  ELSE DataUrl(calls[c].data)],
                               "ok")]
    /\ UNCHANGED <<storeVars, sessionVars, hostPerm, listed, validatorVars,
                   fsVars, removedActive, neverActive>>

\* writeFile: createWritable() answers with an empty stream
TreeCreateWritable(c) ==
    /\ calls[c].op = "writeFile"
    /\ calls[c].pc = "createWritable"
    /\ calls[c].tok = TreeToken
    /\ HostAccepts(c)
    /\ calls' = [calls EXCEPT ![c].pc = "write", ![c].data = <<>>,
                              ![c].stream = <<"open">>]
    /\ UNCHANGED <<storeVars, sessionVars, hostPerm, listed, validatorVars,
                   fsVars, removedActive, neverActive>>

\* writable.write(content) answers, and the stream started with what the
\* file held
TreeWrite_KeepsExistingData(c) ==
    /\ calls[c].op = "writeFile"
    /\ calls[c].pc = "write"
    /\ calls[c].tok = TreeToken
    /\ HostAccepts(c)
    /\ calls' = [calls EXCEPT ![c].pc = "close",
                              ![c].stream = Append(@, "write"),
                              ![c].data = files[calls[c].cur]
                                          \o Utf8Encode(calls[c].content)]
    /\ UNCHANGED <<storeVars, sessionVars, hostPerm, listed, validatorVars,
                   fsVars, removedActive, neverActive>>

\* writeFile: writable.write(content) answers
TreeWrite(c) ==
    /\ calls[c].op = "writeFile"
    /\ calls[c].pc = "write"
    /\ calls[c].tok = TreeToken
    /\ HostAccepts(c)
    /\ calls' = [calls EXCEPT ![c].pc = "close",
                              ![c].stream = Append(@, "write"),
                              ![c].data = Utf8Encode(calls[c].content)]
    /\ UNCHANGED <<storeVars, sessionVars, hostPerm, listed, validatorVars,
                   fsVars, removedActive, neverActive>>

\* writeFile: writable.close() answers, the file now holds what was written,
\* and writeFile returns true
TreeClose(c) ==
    /\ calls[c].op = "writeFile"
    /\ calls[c].pc = "close"
    /\ calls[c].tok = TreeToken
    /\ HostAccepts(c)
    /\ files' = [files EXCEPT ![calls[c].cur] = calls[c].data]
    /\ written' = [n \in DOMAIN written \cup {calls[c].cur} |->
                     IF n = calls[c].cur THEN calls[c].content ELSE written[n]]
    /\ calls' = [calls EXCEPT ![c] =
                   TreeOutcome([calls[c] EXCEPT !.stream = Append(@, "close")],
                               "ok")]
    /\ UNCHANGED <<storeVars, sessionVars, hostPerm, listed, validatorVars,
                   dirs, removedActive, neverActive>>

\* listFiles: the entries are pushed with the path as it is, separators not
\* collapsed
TreeValues_NoCollapse(c) ==
    /\ calls[c].op = "listFiles"
    /\ calls[c].pc = "values"
    /\ calls[c].tok = TreeToken
    /\ HostAccepts(c)
    /\ LET directory == calls[c].path
           files_ == {[name |-> e.name, kind |-> e.kind,
                       path |-> IF directory # <<>>
                                THEN directory \o <<"/">> \o e.name
                                ELSE e.name] : e \in Children(calls[c].cur)}
       IN  calls' = [calls EXCEPT ![c] =
                       TreeOutcome([calls[c] EXCEPT !.entries = files_], "ok")]
    /\ UNCHANGED <<storeVars, sessionVars, hostPerm, listed, validatorVars,
                   fsVars, removedActive, neverActive>>

\* listFiles: dirHandle.values() is run through and listFiles returns
TreeValues(c) ==
    /\ calls[c].op = "listFiles"
    /\ calls[c].pc = "values"
    /\ calls[c].tok = TreeToken
    /\ HostAccepts(c)
    /\ LET directory == calls[c].path
           files_ == {[name |-> e.name, kind |-> e.kind,
                       path |-> IF directory # <<>>
                                THEN CollapseSlashes(directory \o <<"/">> \o e.name)
                                ELSE e.name] : e \in Children(calls[c].cur)}
       IN  calls' = [calls EXCEPT ![c] =
                       TreeOutcome([calls[c] EXCEPT !.entries = files_], "ok")]
    /\ UNCHANGED <<storeVars, sessionVars, hostPerm, listed, validatorVars,
                   fsVars, removedActive, neverActive>>

\* the pending request rejects for a reason of the host's own; what the call
\* created so far stays
TreeFailed(c) ==
    /\ calls[c].op \in IoOps
    /\ ~Free(c)
    /\ calls[c].tok = TreeToken
    /\ calls' = [calls EXCEPT ![c] = TreeOutcome(calls[c], "throw:Host")]
    /\ UNCHANGED <<storeVars, sessionVars, hostPerm, listed, validatorVars,
                   fsVars, removedActive, neverActive>>

TreeNext(c) ==
    \/ \E op \in IoOps, path \in TreeListPaths \cup TreeFilePaths,
          content \in Contents : TreeStart(c, op, path, content)
    \/ TreeDirectoryStep(c)
    \/ TreeFileStep(c)
    \/ TreeGetFile(c)
    \/ TreeContent(c)
    \/ TreeCreateWritable(c)
    \/ TreeWrite(c)
    \/ TreeClose(c)
    \/ TreeValues(c)
    \/ TreeFailed(c)

\* One caller with a grant on "dirA" active, reading, writing and listing.
NextTree == TreeNext("s1")

SpecTree == TreeInit /\ [][NextTree]_vars

(***************************************************************************)
(* validateFilePath on its own: every path of at most MaxPathLen           *)
(* characters over PathAlphabet and the longer paths of SamplePaths, in    *)
(* both grant states.                                                      *)
(***************************************************************************)
PathAlphabet == {".", "/", "\\", ":", "e", "E", "t", "c"}

RECURSIVE PathsUpTo(_)
PathsUpTo(n) ==
    IF n = 0 THEN {<<>>}
    ELSE PathsUpTo(n - 1)
         \cup {Append(s, ch) : s \in PathsUpTo(n - 1), ch \in PathAlphabet}

SamplePaths ==
    { <<"n","o","t","e","s","/","a",".","t","x","t">>,
      <<"S","y","s","t","e","m","3","2">>,
      <<"m","y"," ","w","i","n","d","o","w","s">>,
      <<"W","I","N","D","O","W","S","\\","x">>,
      <<"P","r","o","g","r","a","m"," ","F","i","l","e","s","/","x">>,
      <<"p","r","o","g","r","a","m","f","i","l","e","s">>,
      <<"v","a","r","i","a","b","l","e",".","j","s">>,
      <<"s","r","c","/","V","a","r","s">>,
      <<"C",":","\\","U","s","e","r","s">>,
      <<"d",":","/","e","t","c">>,
      <<"/","h","o","m","e","/",".",".","/","x">>,
      <<"a","/","b","/",".",".">>,
      <<"a",".",".","/","b">>,
      <<"1",":","a">> }

ValidatorInputs == PathsUpTo(MaxPathLen) \cup SamplePaths

\* the session validateFilePath is called in: no grant, or a grant on dirA
InitPath ==
    /\ nextId \in {1, 2}
    /\ store = [i \in Ids |-> IF i < nextId THEN "dirA" ELSE Null]
    /\ rootDirectoryHandle = IF nextId = 1 THEN Null ELSE "dirA"
    /\ permissionGranted = (nextId # 1)
    /\ currentDirectoryId = nextId - 1
    /\ hostPerm = [t \in Tokens |-> "prompt"]
    /\ calls = [c \in Slots |-> Idle]
    /\ listed = {}
    /\ removedActive = FALSE
    /\ neverActive = (nextId = 1)
    /\ dirs = {}
    /\ files = [p \in {} |-> <<>>]
    /\ written = [p \in {} |-> <<>>]
    /\ vpath \in ValidatorInputs
    /\ vgrant \in BOOLEAN
    /\ vresult = "none"

Validate ==
    /\ vresult = "none"
    /\ vresult' = validateFilePath(vpath, vgrant)
    /\ UNCHANGED <<storeVars, sessionVars, hostPerm, calls, listed, vpath, vgrant,
                   fsVars, removedActive, neverActive>>

SpecPath == InitPath /\ [][Validate]_vars

(***************************************************************************)
(* Properties of validateFilePath, checked under SpecPath.                 *)
(***************************************************************************)
Validated == vresult # "none"

\* the kind of error behind each message validateFilePath throws
ErrorKind(result) ==
    CASE result = "ErrTraversal" -> "Traversal"
      [] result \in {"ErrUseRelativePaths", "ErrAbsoluteNotAllowed"} -> "Absolute"
      [] result = "ErrSensitive" -> "Sensitive"
      [] OTHER -> "Ok"

\* path, with '\' read as '/', has a segment equal to '..'
HasDotDotSegment(path) ==
    LET pieces == split(ReplaceBackslashes(path)) IN
    \E i \in 1..Len(pieces) : pieces[i] = <<".", ".">>

\* path starts with '/' or with a letter followed by ':'
HasAbsolutePrefix(path) ==
    \/ Len(path) >= 1 /\ path[1] = "/"
    \/ Len(path) >= 2 /\ path[1] \in UpperCase \cup LowerCase /\ path[2] = ":"

\* path holds '..' followed by a separator
HasDotDotSeparator(path) ==
    \E i \in 1..(Len(path) - 2) :
       path[i] = "." /\ path[i + 1] = "." /\ path[i + 2] \in {"/", "\\"}

\* word occurs in path once '\' is read as '/' and letters are lower-cased
OccursIn(word, path) ==
    LET low == toLowerCase(ReplaceBackslashes(path)) IN
    \E i \in 1..Len(low) : \E j \in i..Len(low) : SubSeq(low, i, j) = word

\* C2: every path with a '..' segment (after '\' is read as '/') fails with the
\* Traversal error, in both grant states.
C2_DotDotSegmentIsTraversal ==
    (Validated /\ HasDotDotSegment(vpath)) => ErrorKind(vresult) = "Traversal"

\* C3 as written: every path with a leading '/' or a drive-letter prefix fails
\* with the Absolute error, in both grant states.
C3_AbsolutePrefixIsAbsolute ==
    (Validated /\ HasAbsolutePrefix(vpath)) => ErrorKind(vresult) = "Absolute"

\* C3 as amended: every path with a leading '/' or a drive-letter prefix is
\* rejected in both grant states: with the Traversal error when it holds '..'
\* followed by a separator, with the Absolute error otherwise.
C3_AbsolutePrefixRejected ==
    (Validated /\ HasAbsolutePrefix(vpath)) =>
       ErrorKind(vresult) =
          IF HasDotDotSeparator(vpath) THEN "Traversal" ELSE "Absolute"

\* a drive-letter path validated with a grant active
C3_Witness ==
    /\ vgrant
    /\ Len(vpath) >= 2 /\ vpath[2] = ":" /\ vpath[1] \in UpperCase
    /\ ErrorKind(vresult) = "Absolute"

\* C4: a non-root path that passes the traversal and absolute checks fails with
\* the Sensitive error iff its lower-cased, slash-normalized form contains one
\* of 'system', 'windows', 'program files', 'etc', 'var', and succeeds
\* otherwise; validating changes neither the session state nor the store.
C4_SensitiveIffListedName ==
    /\ [](( /\ Validated
            /\ ~IsRootPath(vpath)
            /\ ErrorKind(vresult) \notin {"Traversal", "Absolute"} ) =>
          IF \E word \in {s_system, s_windows, s_programfiles, s_etc, s_var} :
                OccursIn(word, vpath)
          THEN vresult = "ErrSensitive"
          ELSE vresult = "ok")
    /\ [][vresult' # vresult => UNCHANGED <<storeVars, sessionVars>>]_vars

\* a path rejected as sensitive only because it is lower-cased first,
\* validated while a grant is stored and active
C4_Witness ==
    /\ vresult = "ErrSensitive"
    /\ \E i \in 1..Len(vpath) : vpath[i] \in UpperCase
    /\ currentDirectoryId # NullId

(***************************************************************************)
(* Properties of the handlers, checked under Spec.                         *)
(***************************************************************************)
\* call resolves its path under the active grant's root handle
UnderGrant(call) == call.op \in IoOps /\ call.tok # Null /\ ~call.eph

\* call awaits a request to the host's file system
AwaitsFileSystem(call) == call.op \in IoOps /\ call.pc \in FsRequests

\* call is a switchDirectory that has returned or thrown
SwitchReturned(call) == call.op = "switchDirectory" /\ call.pc = "done"

\* C1: listFiles, readFile and writeFile apply validateFilePath to their path
\* before the first request to the host's file system, with and without an
\* active grant, and a path it rejects never reaches the host.
C1_ValidatedBeforeLookup ==
    \A c \in Slots :
       AwaitsFileSystem(calls[c]) =>
          /\ calls[c].validated
          /\ \A g \in BOOLEAN : validateFilePath(calls[c].path, g) = "ok"

\* C5: '', '.' and './' validate in both grant states, and listFiles of each
\* of them under an active grant enumerates the root handle itself, with no
\* child directory looked up.
C5_RootPathsDenoteRoot ==
    /\ \A path \in {p_empty, p_dot, p_dotslash}, g \in BOOLEAN :
          validateFilePath(path, g) = "ok"
    /\ \A c \in Slots :
          ( /\ calls[c].op = "listFiles"
            /\ UnderGrant(calls[c])
            /\ calls[c].path \in {p_empty, p_dot, p_dotslash} ) =>
             /\ calls[c].pc # "getDirectoryHandle"
             /\ calls[c].tok = rootDirectoryHandle

\* C6: whenever no handler is running, rootDirectoryHandle is non-null iff
\* currentDirectoryId is non-null and permissionGranted is true.
C6_TokenIffVerifiedGrant ==
    (\A c \in Slots : Free(c)) =>
       (rootDirectoryHandle # Null
          <=> (currentDirectoryId # NullId /\ permissionGranted))

\* C7: a file operation under an active grant queries the host's permission
\* on the root handle before its first request to the host's file system.
C7_PermissionQueriedBeforeAccess ==
    \A c \in Slots :
       (AwaitsFileSystem(calls[c]) /\ UnderGrant(calls[c])) => calls[c].queried

\* C8: with a grant active, a switchDirectory to another stored grant whose
\* permission verification is denied returns false and leaves rootDirectoryHandle, permissionGranted and
\* currentDirectoryId as they were, so hasPermission() is still true.
C8_DeniedSwitchKeepsSession ==
    [][\A c \in Slots :
         ( /\ calls[c].op = "switchDirectory"
           /\ hasPermission
           /\ calls[c].id # currentDirectoryId
           /\ calls[c].tok # rootDirectoryHandle
           /\ SwitchReturned(calls'[c])
           /\ calls'[c].result = "false" ) =>
            UNCHANGED sessionVars]_vars

\* C9 as written: switchDirectory of an id that is not in the store returns
\* false, it does not raise.
C9_UnknownIdReturnsFalse ==
    \A c \in Slots :
       ( /\ SwitchReturned(calls[c])
         /\ calls[c].id = UnknownId
         /\ calls[c].result # "throw:Storage" ) =>
          FileAccessManagerSwitchDirectory(calls[c].result) = "success:false"

\* C9 as amended: switchDirectory of an id that is not in the store raises an
\* error, from the manager and from FileAccessManager.switchDirectory alike
\* (it never returns false), and the session state is left as it was.
C9_UnknownIdRaises ==
    /\ [](\A c \in Slots :
            (SwitchReturned(calls[c]) /\ calls[c].id = UnknownId) =>
               /\ calls[c].result \in {"throw:NotFound", "throw:Storage"}
               /\ FileAccessManagerSwitchDirectory(calls[c].result) = "throw")
    /\ [][\A c \in Slots :
            ( /\ calls[c].op = "switchDirectory"
              /\ calls[c].id = UnknownId
              /\ SwitchReturned(calls'[c]) ) =>
               UNCHANGED sessionVars]_vars

\* a switch to an unknown id has raised while a grant is active
C9_Witness ==
    /\ hasPermission
    /\ currentDirectoryId # NullId
    /\ \E c \in Slots :
          /\ SwitchReturned(calls[c])
          /\ calls[c].id = UnknownId
          /\ calls[c].result = "throw:NotFound"

\* C10: when the store answers switchDirectory's lookup and holds no record of
\* the id (one never stored, or one listed earlier and removed since), the
\* call fails with the not-found error, without any permission query or
\* prompt, and session state, store and host permissions are unchanged.
C10_MissingRecordIsNotFound ==
    [][\A c \in Slots :
         ( /\ calls[c].op = "switchDirectory"
           /\ calls[c].pc = "store.get"
           /\ StoreGet(calls[c].id) = Null
           /\ SwitchReturned(calls'[c])
           /\ calls'[c].result # "throw:Storage" ) =>
            /\ calls'[c].result = "throw:NotFound"
            /\ ~calls'[c].queried
            /\ ~calls'[c].prompted
            /\ UNCHANGED <<sessionVars, storeVars, hostPerm>>]_vars

\* a switch to an id that a listing had shown and that was removed afterwards
\* has failed with the not-found error
C10_Witness ==
    \E c \in Slots :
       /\ SwitchReturned(calls[c])
       /\ calls[c].id \in listed
       /\ calls[c].result = "throw:NotFound"
       /\ ~calls[c].queried

(***************************************************************************)
(* Properties of the manager's own operations, checked under SpecManager.  *)
(***************************************************************************)
\* call is one of the three lookups and failed on the test of rootDirectoryHandle,
\* before any request to the host
FailedNoPermission(call) ==
    /\ call.op \in ResolveOps
    /\ call.pc = "done"
    /\ call.result = "throw:NoDirectoryPermission"

\* call is a removeDirectory that has returned
RemoveReturned(call) == call.op = "removeDirectory" /\ call.pc = "done"

\* C11: once removeDirectory of the active grant's id has returned, the record
\* is gone, rootDirectoryHandle, permissionGranted and currentDirectoryId are
\* reset and hasPermission() is false; and from then until a request or a
\* switch succeeds, every getFileHandle, createFileHandle and
\* getDirectoryHandle fails with the no-permission error.
C11_RemovedActiveGrantStaysCleared ==
    /\ \A c \in Slots :
          (RemoveReturned(calls[c]) /\ calls[c].wasActive
             /\ calls[c].result = "true") =>
             /\ StoreGet(calls[c].id) = Null
             /\ rootDirectoryHandle = Null
             /\ ~permissionGranted
             /\ currentDirectoryId = NullId
             /\ ~hasPermission
    /\ removedActive =>
          \A c \in Slots :
             calls[c].op \in ResolveOps => FailedNoPermission(calls[c])

\* C15: in every state in which hasPermission() is false, getFileHandle,
\* createFileHandle and getDirectoryHandle fail with the no-permission error
\* and issue no lookup on any directory handle.
C15_NoLookupWithoutPermission ==
    ~hasPermission =>
       \A c \in Slots :
          calls[c].op \in ResolveOps => FailedNoPermission(calls[c])

\* the ids that have a record in the store
StoredIds(st) == {i \in DOMAIN st : st[i] # Null}

\* call is a requestDirectoryPermission that has returned or thrown
RequestReturned(call) == call.op = "requestDirectoryAccess" /\ call.pc = "done"

\* C12: removeDirectory of an id that has no record returns true, and it
\* changes neither the store nor the session state, so a second removal of
\* the same id leaves everything as the first one left it.
C12_RemoveIsIdempotent ==
    [][\A c \in Slots :
         /\ ( /\ Free(c)
              /\ calls'[c].op = "removeDirectory"
              /\ calls'[c].pc = "store.delete"
              /\ StoreGet(calls'[c].id) = Null ) =>
               UNCHANGED <<sessionVars, storeVars>>
         /\ ( /\ calls[c].op = "removeDirectory"
              /\ calls[c].pc = "store.delete"
              /\ StoreGet(calls[c].id) = Null
              /\ RemoveReturned(calls'[c])
              /\ calls'[c].result # "throw:Storage" ) =>
               /\ calls'[c].result = "true"
               /\ UNCHANGED <<sessionVars, storeVars>>]_vars

\* a grant that a listing had shown has been removed a second time, with
\* success, while another grant is active
C12_Witness ==
    /\ hasPermission
    /\ currentDirectoryId # NullId
    /\ \E c \in Slots :
          /\ RemoveReturned(calls[c])
          /\ calls[c].id \in listed
          /\ ~calls[c].found
          /\ calls[c].result = "true"

\* C13: when requestDirectoryPermission returns true (from no grant or from an
\* active grant), hasPermission() is true, currentDirectoryId is the id of a
\* record that did not exist before, that record holds the picked handle,
\* which is rootDirectoryHandle, the store holds exactly one record more than
\* when the call started, and every earlier record is unchanged.
C13_GrantedRequestAddsOneRecord ==
    [][\A c \in Slots :
         (calls[c].op = "requestDirectoryAccess" /\ ~Free(c)) =>
            IF RequestReturned(calls'[c]) /\ calls'[c].result = "true"
            THEN /\ rootDirectoryHandle' # Null /\ permissionGranted'
                 /\ currentDirectoryId' = calls'[c].id
                 /\ currentDirectoryId' \notin StoredIds(store) \cup listed
                 /\ store'[currentDirectoryId'] = calls[c].tok
                 /\ rootDirectoryHandle' = calls[c].tok
                 /\ Cardinality(StoredIds(store')) = Cardinality(StoredIds(store)) + 1
                 /\ \A i \in StoredIds(store) : store'[i] = store[i]
            ELSE UNCHANGED storeVars]_vars

\* a second grant has been added while the first one was active
C13_Witness ==
    /\ hasPermission
    /\ Cardinality(StoredIds(store)) = 2
    /\ \E c \in Slots :
          /\ RequestReturned(calls[c])
          /\ calls[c].result = "true"
          /\ calls[c].id = currentDirectoryId
          /\ store[calls[c].id] = rootDirectoryHandle

\* the step in which call c of slot c ends because the picker was cancelled
PickerCancelled(c) ==
    /\ calls[c].op = "requestDirectoryAccess"
    /\ calls[c].pc = "showDirectoryPicker"
    /\ RequestReturned(calls'[c])

\* the step in which the user declines the permission prompt of call c
PromptDeclined(c) ==
    /\ calls[c].op = "requestDirectoryAccess"
    /\ calls[c].pc = "requestPermission"
    /\ calls'[c].prompted
    /\ hostPerm'[calls[c].tok] = "denied"

\* C14 as written: requestDirectoryPermission fails with an error both when
\* the user cancels the picker and when the user picks a directory and
\* declines the prompt, and no record is stored in either case.
C14_CancelAndDeclineRaise ==
    [][\A c \in Slots :
         (PickerCancelled(c) \/ PromptDeclined(c)) =>
            /\ RequestReturned(calls'[c])
            /\ FileAccessManagerRequestDirectoryAccess(calls'[c].result) = "error"
            /\ UNCHANGED storeVars]_vars

\* C14 as amended: a cancelled picker makes requestDirectoryPermission raise
\* an error (requestDirectoryAccess answers {error: true}); a declined prompt
\* makes it return false without raising (requestDirectoryAccess answers
\* {success: false}); no step of a call that ends either way stores a record.
C14_CancelRaisesDeclineReturnsFalse ==
    [][\A c \in Slots :
         /\ PickerCancelled(c) =>
               /\ calls'[c].result = "throw:Abort"
               /\ FileAccessManagerRequestDirectoryAccess(calls'[c].result) = "error"
         /\ PromptDeclined(c) =>
               /\ RequestReturned(calls'[c])
               /\ calls'[c].result = "false"
               /\ FileAccessManagerRequestDirectoryAccess(calls'[c].result)
                     = "success:false"
         /\ ( /\ calls[c].op = "requestDirectoryAccess"
              /\ ~Free(c)
              /\ calls'[c].result # "true" ) => UNCHANGED storeVars]_vars

\* the user picked a directory and declined the prompt: the call has returned
\* false and the store holds no record
C14_Witness ==
    /\ StoredIds(store) = {}
    /\ rootDirectoryHandle # Null
    /\ hostPerm[rootDirectoryHandle] = "denied"
    /\ \E c \in Slots :
          /\ RequestReturned(calls[c])
          /\ calls[c].prompted
          /\ calls[c].result = "false"

(***************************************************************************)
(* Further properties of the handlers, checked under Spec.                 *)
(***************************************************************************)
\* call is a getStoredDirectories that has returned its list
ListingReturned(call) ==
    call.op = "getStoredDirectories" /\ call.pc = "done" /\ call.result = "list"

\* C16: getStoredDirectories returns exactly one entry per stored record; a
\* record whose permission check throws gets an entry with hasPermission
\* false and the error noted, the listing goes on and does not raise, and
\* every other entry carries the answer of its own permission query.
C16_ListingSurvivesFailedChecks ==
    /\ [](\A c \in Slots :
            ListingReturned(calls[c]) =>
               /\ {e.id : e \in calls[c].entries} = StoredIds(store)
               /\ Cardinality(calls[c].entries) = Cardinality(StoredIds(store))
               /\ \A e \in calls[c].entries : e.error => ~e.hasPermission)
    /\ [][\A c \in Slots :
            ( /\ calls[c].op = "getStoredDirectories"
              /\ calls[c].pc = "queryPermission"
              /\ calls'[c].op = calls[c].op
              /\ calls'[c] # calls[c] ) =>
               /\ calls[c].entries \subseteq calls'[c].entries
               /\ \E e \in calls'[c].entries \ calls[c].entries :
                     /\ e.id = Head(calls[c].todo)[1]
                     /\ ~e.error =>
                           (e.hasPermission
                              <=> hostPerm[Head(calls[c].todo)[2]] = "granted")
               /\ calls'[c].pc = "done" => calls'[c].result = "list"]_vars

\* a listing of two records has returned: the check of one threw, the other
\* one is reported with permission
C16_Witness ==
    \E c \in Slots :
       /\ ListingReturned(calls[c])
       /\ \E e1, e2 \in calls[c].entries :
             /\ e1.error /\ ~e1.hasPermission
             /\ ~e2.error /\ e2.hasPermission

\* C17: readFile fails with the size error exactly for a file larger than
\* maxFileSize, in the grant branch and in the picker branch alike, and it
\* does so in the step in which getFile() answers: the read of the content
\* (text() or readAsDataURL) is started only for a file within the limit,
\* the limit itself included.
C17_SizeCheckedBeforeContent ==
    /\ [](\A c \in Slots :
            /\ (calls[c].op = "readFile" /\ calls[c].pc = "content") =>
                  calls[c].size <= maxFileSize
            /\ (calls[c].op = "readFile" /\ calls[c].result = "throw:LimitExceeded")
                  => calls[c].size > maxFileSize)
    /\ [][\A c \in Slots :
            ( /\ calls[c].op = "readFile"
              /\ calls[c].pc = "getFile"
              /\ calls'[c].op = calls[c].op
              /\ calls'[c] # calls[c]
              /\ calls'[c].result # "throw:Host" ) =>
               IF calls'[c].size > maxFileSize
               THEN /\ calls'[c].pc = "done"
                    /\ calls'[c].result = "throw:LimitExceeded"
               ELSE /\ calls'[c].size = maxFileSize
                    /\ calls'[c].pc = "content"]_vars

\* a file one byte over the limit has been rejected
C17_Witness ==
    \E c \in Slots :
       /\ calls[c].op = "readFile"
       /\ calls[c].pc = "done"
       /\ calls[c].result = "throw:LimitExceeded"
       /\ calls[c].size = maxFileSize + 1

\* call runs in the picker branch of listFiles, readFile or writeFile
InFallback(call) == call.op \in IoOps /\ call.validated

\* a step of a listFiles, readFile or writeFile in slot c that found no grant
\* active: its start, or a later step of its picker branch
FallbackStep(c) ==
    /\ calls'[c] # calls[c]
    /\ \/ Free(c) /\ calls'[c].op \in IoOps /\ ~hasPermission
       \/ InFallback(calls[c]) /\ calls'[c].op = calls[c].op

\* C20: with no grant active, listFiles, readFile and writeFile work on a
\* handle that a one-shot picker returned, and no step of such a call changes
\* the store or rootDirectoryHandle, permissionGranted and
\* currentDirectoryId: hasPermission() is false afterwards as before.
C20_EphemeralNeverPersisted ==
    /\ [](\A c \in Slots :
            (InFallback(calls[c]) /\ AwaitsFileSystem(calls[c])) =>
               calls[c].eph /\ calls[c].tok \in Tokens)
    /\ [][\A c \in Slots :
            FallbackStep(c) =>
               /\ UNCHANGED <<storeVars, sessionVars>>
               /\ ~hasPermission => ~hasPermission']_vars

\* with a record stored and no grant active, a write through the save picker
\* has returned
C20_Witness ==
    /\ ~hasPermission
    /\ StoredIds(store) # {}
    /\ \E c \in Slots :
          /\ calls[c].op = "writeFile"
          /\ calls[c].pc = "done"
          /\ calls[c].result = "ok"

(***************************************************************************)
(* Properties of reading, writing and listing, checked under SpecTree.     *)
(***************************************************************************)
\* call is a readFile that has returned its result
ReadReturned(call) ==
    call.op = "readFile" /\ call.pc = "done" /\ call.result = "ok"

\* call is a listFiles that has returned its entries
ListReturned(call) ==
    call.op = "listFiles" /\ call.pc = "done" /\ call.result = "ok"

\* path passes validateFilePath and its last segment has a text extension
ValidTextPath(path) ==
    /\ validateFilePath(path, TRUE) = "ok"
    /\ Segments(path) # <<>>
    /\ isTextFile(LastName(Segments(path)))

\* str has no unpaired surrogate and does not start with a byte order mark
PlainString(str) ==
    /\ \A i \in 1..Len(str) : str[i] # c_surrogate
    /\ str = <<>> \/ str[1] # c_bom

\* the bytes of str in UTF-8, str having no unpaired surrogate
RECURSIVE Utf8Bytes(_)
Utf8Bytes(str) ==
    IF str = <<>> THEN 0
    ELSE (CASE Head(str) = c_eacute -> 2
            [] Head(str) = c_bom -> 3
            [] Head(str) = c_replacement -> 3
            [] OTHER -> 1) + Utf8Bytes(Tail(str))

\* C18 as written: after writeFile(p, c) has returned for a valid path p with
\* a text extension, and while no other write to p has started, readFile(p)
\* returns content c, name the last segment of p, and size the length of c.
C18_ReadReturnsWhatWasWritten ==
    \A c \in Slots :
       ( /\ ReadReturned(calls[c])
         /\ ValidTextPath(calls[c].path)
         /\ Segments(calls[c].path) \in DOMAIN written ) =>
          LET str == written[Segments(calls[c].path)] IN
          /\ calls[c].content = str
          /\ calls[c].name = LastName(Segments(calls[c].path))
          /\ calls[c].size = Len(str)

\* C18 as amended: the same for a string c that has no unpaired surrogate and
\* does not start with a byte order mark, the size being the number of bytes
\* of c in UTF-8.
C18_ReadReturnsPlainStringWritten ==
    \A c \in Slots :
       ( /\ ReadReturned(calls[c])
         /\ ValidTextPath(calls[c].path)
         /\ Segments(calls[c].path) \in DOMAIN written
         /\ PlainString(written[Segments(calls[c].path)]) ) =>
          LET str == written[Segments(calls[c].path)] IN
          /\ calls[c].content = str
          /\ calls[c].name = LastName(Segments(calls[c].path))
          /\ calls[c].size = Utf8Bytes(str)

\* a one-letter string of two bytes has been written to d/f.c and read back,
\* right after the write
C18_Witness ==
    \E c \in Slots :
       /\ ReadReturned(calls[c])
       /\ calls[c].path = q_d_f_c
       /\ Len(calls[c].after) = 4
       /\ calls[c].after[1] = "writeFile"
       /\ calls[c].after[3] = "ok"
       /\ Segments(calls[c].path) \in DOMAIN written
       /\ written[Segments(calls[c].path)] = <<c_eacute>>
       /\ calls[c].content = <<c_eacute>>
       /\ calls[c].size = 2

\* C19: when writeFile('d/f', c) has created the directory d and the file f
\* and has returned, a listFiles of d that follows returns exactly one entry:
\* name f, kind file, and as path the directory joined with the name by '/',
\* repeated separators collapsed, which is 'd/f'.
C19_WriteThenListShowsTheFile ==
    \A c \in Slots :
       ( /\ ListReturned(calls[c])
         /\ Len(calls[c].after) = 4
         /\ calls[c].after[1] = "writeFile"
         /\ calls[c].after[3] = "ok"
         /\ Parent(Segments(calls[c].after[2])) = <<q_d>>
         /\ <<q_d>> \in calls[c].after[4]
         /\ Segments(calls[c].path) = <<q_d>> ) =>
          calls[c].entries =
             {[name |-> LastName(Segments(calls[c].after[2])),
               kind |-> "file",
               path |-> calls[c].after[2]]}

\* d/f.c was written into a directory d that the write created, and the
\* listing of 'd/' that followed has returned
C19_Witness ==
    \E c \in Slots :
       /\ ListReturned(calls[c])
       /\ calls[c].path = q_d_slash
       /\ Len(calls[c].after) = 4
       /\ calls[c].after[1] = "writeFile"
       /\ calls[c].after[2] = q_d_f_c
       /\ calls[c].after[3] = "ok"
       /\ <<q_d>> \in calls[c].after[4]
       /\ Cardinality(calls[c].entries) = 1

(***************************************************************************)
(* Properties of the choice between the grant and the one-shot pickers,    *)
(* checked under Spec.                                                     *)
(***************************************************************************)
\* the requests that open a picker of the host
Pickers == {"showDirectoryPicker", "showOpenFilePicker", "showSaveFilePicker"}

\* call c is a listFiles, readFile or writeFile in flight while hasPermission()
\* is true
IoUnderPermission(c) ==
    calls[c].op \in IoOps /\ ~Free(c) /\ hasPermission

\* C21 as written: whenever hasPermission() is true, listFiles, readFile and
\* writeFile, for every path and the empty one too, work from the root handle
\* of the grant and open no picker.
C21_NoPickerUnderGrant ==
    \A c \in Slots :
       IoUnderPermission(c) =>
          /\ calls[c].pc \notin Pickers
          /\ ~calls[c].eph
          /\ calls[c].tok = rootDirectoryHandle

\* C21 as amended: whenever hasPermission() is true, listFiles for every path
\* and readFile and writeFile for every path but the empty one work from the
\* root handle of the grant and open no picker; readFile and writeFile of the
\* empty path open the open-file or save-file picker and work on what it
\* returns.
C21_PickerUnderGrantOnlyForEmptyPath ==
    \A c \in Slots :
       IoUnderPermission(c) =>
          IF calls[c].op # "listFiles" /\ calls[c].path = <<>>
          THEN calls[c].pc = PickerPc(calls[c].op) \/ calls[c].eph
          ELSE /\ calls[c].pc \notin Pickers
               /\ ~calls[c].eph
               /\ calls[c].tok = rootDirectoryHandle

\* with a grant active, a writeFile of the empty path is about to close the
\* file the save picker returned
C21_Witness ==
    /\ hasPermission
    /\ currentDirectoryId # NullId
    /\ \E c \in Slots :
          /\ calls[c].op = "writeFile"
          /\ calls[c].path = <<>>
          /\ calls[c].eph
          /\ calls[c].pc = "close"

(***************************************************************************)
(* Properties of the command handlers, checked under Spec.                 *)
(***************************************************************************)
\* the commands of the plugin
Commands ==
    {"requestDirectoryAccess", "listFiles", "readFile", "writeFile",
     "getStoredDirectories", "switchDirectory", "removeDirectory"}

\* what a method returns when it did what it was asked to
SuccessResults == {"true", "ok", "list"}

\* C22: every command ends with a record; when the method behind it failed
\* (validation, permission denied or picker cancelled, not found, size limit,
\* store, host) the record is {error: true, message}; and no request that
\* failed is issued again: a step that leaves a command running moves it on
\* to another request, to the next segment or to the next record.
C22_EveryFailureIsAnErrorRecord ==
    /\ [](\A c \in Slots :
            (calls[c].op \in Commands /\ calls[c].pc = "done") =>
               /\ FileAccessPluginCommand(calls[c].op, calls[c].result) # "none"
               /\ calls[c].result \notin SuccessResults =>
                     FileAccessPluginCommand(calls[c].op, calls[c].result) = "error")
    /\ [][\A c \in Slots :
            ( /\ calls[c].op \in Commands
              /\ ~Free(c)
              /\ calls'[c] # calls[c]
              /\ calls'[c].op = calls[c].op
              /\ calls'[c].pc # "done" ) =>
               \/ calls'[c].pc # calls[c].pc
               \/ Len(calls'[c].segs) < Len(calls[c].segs)
               \/ Len(calls'[c].todo) < Len(calls[c].todo)]_vars

(***************************************************************************)
(* Further properties of the manager's own operations, checked under       *)
(* SpecManager.                                                            *)
(***************************************************************************)
\* call is a verifyPermission that has returned or thrown
VerifyReturned(call) == call.op = "verifyPermission" /\ call.pc = "done"

\* a step of the verifyPermission in slot c: its start, or a step of its own
VerifyStep(c) ==
    /\ calls'[c] # calls[c]
    /\ calls'[c].op = "verifyPermission"
    /\ Free(c) \/ calls[c].op = "verifyPermission"

\* C23: verifyPermission returns true without a prompt when the host's answer
\* to the query is 'granted'; otherwise it prompts iff askForPermission is
\* true and returns whether the prompt ended in 'granted'; a denial makes it
\* return false, not throw; and no step of it changes rootDirectoryHandle,
\* permissionGranted, currentDirectoryId or the store.
C23_VerifyPermissionAnswers ==
    /\ [](\A c \in Slots :
            VerifyReturned(calls[c]) =>
               /\ calls[c].prompted => calls[c].ask
               /\ calls[c].result \in {"true", "false", "throw:HostApi"})
    /\ [][\A c \in Slots :
            VerifyStep(c) =>
               /\ UNCHANGED <<sessionVars, storeVars>>
               /\ ( /\ calls[c].op = "verifyPermission"
                    /\ calls[c].pc = "queryPermission"
                    /\ calls'[c].result # "throw:HostApi" ) =>
                     /\ hostPerm' = hostPerm
                     /\ ~calls'[c].prompted
                     /\ IF hostPerm[calls[c].tok] = "granted"
                        THEN VerifyReturned(calls'[c]) /\ calls'[c].result = "true"
                        ELSE IF calls[c].ask
                        THEN calls'[c].pc = "requestPermission"
                        ELSE VerifyReturned(calls'[c]) /\ calls'[c].result = "false"
               /\ ( /\ calls[c].op = "verifyPermission"
                    /\ calls[c].pc = "requestPermission"
                    /\ calls'[c].result # "throw:HostApi" ) =>
                     /\ VerifyReturned(calls'[c])
                     /\ calls'[c].prompted
                     /\ calls'[c].result =
                           (IF hostPerm'[calls[c].tok] = "granted"
                            THEN "true" ELSE "false")]_vars

\* with a grant active, verifyPermission(handle, true) has prompted, the user
\* has denied, and it has returned false
C23_Witness ==
    /\ hasPermission
    /\ currentDirectoryId # NullId
    /\ \E t \in Tokens : hostPerm[t] = "denied"
    /\ \E c \in Slots :
          /\ VerifyReturned(calls[c])
          /\ calls[c].ask
          /\ calls[c].prompted
          /\ calls[c].result = "false"

\* the step in which the manager objects are constructed anew
Restarted ==
    /\ calls # calls'
    /\ calls' = [c \in Slots |-> Idle]

\* C24: a restart leaves every record in the store and resets
\* rootDirectoryHandle, permissionGranted and currentDirectoryId; a listing
\* returns the ids of the records of the store; and, whenever no handler is
\* running, a manager on which no request and no switch has succeeded yet has
\* rootDirectoryHandle and currentDirectoryId null and hasPermission() false.
C24_RecordsSurviveRestartSessionDoesNot ==
    /\ [][Restarted =>
            /\ store' = store
            /\ rootDirectoryHandle' = Null
            /\ ~permissionGranted'
            /\ currentDirectoryId' = NullId]_vars
    /\ [](\A c \in Slots :
            ListingReturned(calls[c]) =>
               {e.id : e \in calls[c].entries} = StoredIds(store))
    /\ []((neverActive /\ \A c \in Slots : Free(c)) =>
            /\ rootDirectoryHandle = Null
            /\ currentDirectoryId = NullId
            /\ ~hasPermission)

\* the ways a request ends without a grant: the picker is cancelled, the
\* prompt is declined, the store does not take the record
RequestNotGranted == {"throw:Abort", "false", "throw:Storage"}

\* C27: a requestDirectoryPermission that ends without a grant leaves the
\* session as it found it: when hasPermission() was true at its start, the
\* current id, the root handle (the handle of the record with that id) and
\* hasPermission() are as before; when no grant was active,
\* rootDirectoryHandle is still null.
C27_FailedRequestKeepsSession ==
    \A c \in Slots :
       (RequestReturned(calls[c]) /\ calls[c].result \in RequestNotGranted) =>
          IF calls[c].wasActive
          THEN /\ currentDirectoryId # NullId
               /\ rootDirectoryHandle = StoreGet(currentDirectoryId)
               /\ hasPermission
          ELSE rootDirectoryHandle = Null

\* a removeDirectory has returned with the store's delete failing
RemoveFailedReturned(call) ==
    RemoveReturned(call) /\ call.result = "throw:Storage"

\* C29: a removeDirectory(id) whose store.delete fails has no effect: when id
\* was the current id at the call's start it is still the current id, with a
\* root handle, after the call has thrown.
C29_FailedRemoveKeepsSession ==
    \A c \in Slots :
       (RemoveFailedReturned(calls[c]) /\ calls[c].wasActive) =>
          /\ currentDirectoryId = calls[c].id
          /\ rootDirectoryHandle # Null

\* a grant is active and directoryId is the id of another one
OtherGrantActive(directoryId) ==
    /\ hasPermission
    /\ currentDirectoryId \notin {NullId, directoryId}

\* a removeDirectory starts in slot c
RemoveStarts(c) ==
    /\ Free(c)
    /\ calls'[c] # calls[c]
    /\ calls'[c].op = "removeDirectory"

\* the removeDirectory in slot c returns
RemoveReturns(c) ==
    /\ calls[c].op = "removeDirectory"
    /\ calls[c].pc = "store.delete"
    /\ calls'[c].pc = "done"

\* C30: removeDirectory(B) while grant A is active and B is another id
\* changes nothing but B's record: neither of its steps changes the root
\* handle, permissionGranted or the current id, and when it returns true
\* the store is the store it found, less the record with id B.
C30_RemoveOtherDeletesOnlyItsRecord ==
    [][\A c \in Slots :
         /\ (RemoveStarts(c) /\ OtherGrantActive(calls'[c].id)) =>
               UNCHANGED <<sessionVars, storeVars>>
         /\ (RemoveReturns(c) /\ OtherGrantActive(calls[c].id)) =>
               /\ UNCHANGED <<sessionVars, nextId>>
               /\ store' = [i \in DOMAIN store |->
                              IF i = calls[c].id /\ calls'[c].result = "true"
                              THEN Null ELSE store[i]]]_vars

\* removeDirectory(B) has returned true, B's record was stored, and the
\* other grant is still active with its record in the store
C30_Witness ==
    \E c \in Slots :
       /\ RemoveReturned(calls[c])
       /\ calls[c].result = "true"
       /\ calls[c].found
       /\ ~calls[c].wasActive
       /\ OtherGrantActive(calls[c].id)
       /\ StoreGet(currentDirectoryId) = rootDirectoryHandle
       /\ StoreGet(calls[c].id) = Null

\* a step of the getStoredDirectories in slot c: its call, the answer of
\* store.getAll, the answer of a permission query
GetStoredStep(c) ==
    /\ calls'[c].op = "getStoredDirectories"
    /\ calls'[c] # calls[c]

\* C33: getStoredDirectories asks the user nothing and changes nothing: no
\* step of it requests a permission or changes what the host has granted,
\* and none changes the store, the root handle, permissionGranted or the
\* current id.
C33_ListingAsksAndChangesNothing ==
    [][\A c \in Slots :
         GetStoredStep(c) =>
            /\ calls'[c].pc # "requestPermission"
            /\ ~calls'[c].prompted
            /\ UNCHANGED <<hostPerm, storeVars, sessionVars>>]_vars

\* a listing has returned with a grant active, having queried a stored
\* handle whose permission the host would have asked the user about
C33_Witness ==
    \E c \in Slots :
       /\ calls[c].op = "getStoredDirectories"
       /\ calls[c].pc = "done"
       /\ calls[c].result = "list"
       /\ calls[c].queried
       /\ ~calls[c].prompted
       /\ hasPermission
       /\ \E e \in calls[c].entries :
             /\ ~e.hasPermission
             /\ ~e.error
             /\ StoreGet(e.id) # Null
             /\ hostPerm[StoreGet(e.id)] = "prompt"

(***************************************************************************)
(* Properties of interleaved grant commands, checked under                 *)
(* SpecConcurrentGrants.                                                   *)
(***************************************************************************)
\* C25: whatever the interleaving of the requests and switches that were
\* pending, once they have returned and hasPermission() is true,
\* currentDirectoryId is the id of a stored record and rootDirectoryHandle is
\* the handle of that record: the two never end up on two different grants.
C25_ActiveTokenBelongsToActiveId ==
    ((\A c \in Slots : Free(c)) /\ hasPermission) =>
       /\ currentDirectoryId # NullId
       /\ StoreGet(currentDirectoryId) = rootDirectoryHandle

\* C28: whatever the interleaving of switchDirectory, requestDirectoryPermission
\* and removeDirectory calls, once every call has returned a current id that
\* is not null is the id of a stored record.
C28_ActiveGrantNeverDangling ==
    ((\A c \in Slots : Free(c)) /\ currentDirectoryId # NullId) =>
       StoreGet(currentDirectoryId) # Null

(***************************************************************************)
(* Properties of file operations issued while a request is pending,        *)
(* checked under SpecConcurrentIo.                                         *)
(***************************************************************************)
\* the handles of the stored records
StoredHandles == {store[i] : i \in StoredIds(store)}

\* the request in slot r began with a grant active, its picker has returned a
\* directory that no record holds, and the verification of that directory
\* has not answered yet
VerificationPending(r) ==
    /\ calls[r].op = "requestDirectoryAccess"
    /\ calls[r].pc \in {"queryPermission", "requestPermission"}
    /\ calls[r].wasActive
    /\ calls[r].tok \notin StoredHandles

\* a listFiles, readFile or writeFile starts in slot c
IoStarts(c) ==
    /\ Free(c)
    /\ calls'[c] # calls[c]
    /\ calls'[c].op \in IoOps

\* C26: a listFiles, readFile or writeFile that starts while a request,
\* begun with a grant active, has its picked directory X under verification
\* does not take X as the handle it resolves its path from.
C26_NoWalkFromUnverifiedHandle ==
    [][\A c \in Slots, r \in Slots :
         (IoStarts(c) /\ VerificationPending(r)) =>
            calls'[c].tok # calls[r].tok]_vars

(***************************************************************************)
(* Properties of the file operations on the directory's contents, checked  *)
(* under SpecTree.                                                         *)
(***************************************************************************)
ReadOps == {"readFile", "listFiles"}

\* the directories and the files under the root
TreeNodes == <<dirs, DOMAIN files>>

\* the call in slot c awaits the lookup of a child that is not there
LooksUpMissing(c) ==
    \/ /\ calls[c].pc = "getDirectoryHandle"
       /\ Append(calls[c].cur, Head(calls[c].segs)) \notin dirs
    \/ /\ calls[c].pc = "getFileHandle"
       /\ Append(calls[c].cur, Head(calls[c].segs)) \notin DOMAIN files

\* C31: readFile and listFiles create nothing: no step of theirs, from the
\* call to its return or throw, changes the directories, the files or what
\* the files hold; the lookup of a segment or of a final file that is not
\* there ends the call with a failure, NotFound unless the host rejects the
\* request for a reason of its own; and a step that adds a directory or a
\* file is a step of writeFile.
C31_ReadAndListCreateNothing ==
    [][\A c \in Slots :
         /\ (calls'[c].op \in ReadOps /\ calls'[c] # calls[c]) =>
               UNCHANGED <<dirs, files>>
         /\ (calls[c].op \in ReadOps /\ LooksUpMissing(c)
               /\ calls'[c] # calls[c]) =>
               /\ calls'[c].pc = "done"
               /\ calls'[c].result \in {"throw:NotFound", "throw:Host"}
         /\ (TreeNodes' # TreeNodes /\ calls'[c] # calls[c]) =>
               /\ calls[c].op = "writeFile"
               /\ ~Free(c)]_vars

\* a readFile has failed with NotFound on a missing file in a directory that
\* is there, and nothing was created in its place
C31_Witness ==
    \E c \in Slots :
       /\ calls[c].op = "readFile"
       /\ calls[c].pc = "done"
       /\ calls[c].result = "throw:NotFound"
       /\ Parent(Segments(calls[c].path)) \in dirs
       /\ Segments(calls[c].path) \notin DOMAIN files
       /\ DOMAIN files # {}

\* a writeFile has returned or thrown
WriteEnded(call) == call.op = "writeFile" /\ call.pc = "done"

\* C32: a writable stream that writeFile opened is closed when writeFile
\* returns or throws.  When it returns true the host has carried out
\* createWritable, one write and close, in that order; when it throws with
\* the stream opened, close has been carried out or is the request that
\* failed: the call does not end with a stream that was opened and never
\* asked to close.
C32_StreamClosedWhenWriteEnds ==
    \A c \in Slots :
       WriteEnded(calls[c]) =>
          /\ calls[c].result = "ok" =>
                calls[c].stream = <<"open", "write", "close">>
          /\ calls[c].stream \in
                {<<>>, <<"open", "write">>, <<"open", "write", "close">>}

====
